---- MODULE Spec2Model ----
(***************************************************************************)
(* Name normalisation, concept index and linking engine of the Mental      *)
(* Models database tool (src/src/dbGeneratorOpenAI).                       *)
(*                                                                         *)
(* A Python str is a sequence of characters.  A character is a one-        *)
(* character string; a non-ASCII character is written by its code point,   *)
(* "U+2019" for the right single quote.  Chars turns a literal into such a *)
(* sequence.  None is the value None.                                      *)
(***************************************************************************)
EXTENDS Integers, Sequences, FiniteSets, TLC

VARIABLES
    pc,           \* position of the operation under way
    fn,           \* which canonicalize_name is applied: "names" or "mm_tool"
    text,         \* the input string of the operation
    once,         \* canonicalize_name(text)
    twice,        \* canonicalize_name(canonicalize_name(text))
    guessed,      \* guess_model_name_from_text(text)
    canon_guess,  \* canonicalize_name(guessed)
    models,       \* the rows of mental_models, in the order the SELECT returns them
    model_index,  \* the dict build_mental_model_index fills, in insertion order
    row,          \* the loop's position in models (scan: in the blocks of a file), from 1
    title,        \* an episode or feed entry title
    canon_title,  \* canonicalize_name(title)
    match,        \* what the matching of canon_title returned
    model_variants,   \* auto-link: the variants built from the model names
    episodes,         \* auto-link: the rows of episodes, ordered by id
    mental_model_id,  \* the column episodes.mental_model_id, by episode
    titles,           \* the column episodes.title, by episode
    transcripts,      \* the column episodes.transcript, by episode
    write_fails,      \* the episodes whose UPDATE raises an exception
    sheet,            \* import: the rows of the Excel sheet
    schema,           \* the tables of the database file: their columns and rows
    committed,        \* conn.commit() has run
    dry_run,          \* the dry_run argument
    ep,               \* the loop's position in episodes (scan: in files), from 1
    counts,           \* linked, already_linked, no_match, ambiguous
    examples,         \* the sample links collected for the summary
    output,           \* what has been printed
    silent_segments,  \* find_nearest_gap: the silent segments, (start, end) each
    target_time,      \* find_nearest_gap: the target time
    gap,              \* what find_nearest_gap returned
    raw_transcript,   \* clean_transcript: its argument
    cleaned_transcript,   \* what clean_transcript returned, or the exception it raised
    files,            \* scan: the episode blocks of the .docx files, in the order of os.walk
    existing_by_model,    \* scan: the cache of episodes by mental_model_id
    existing_by_title,    \* scan: the cache of episodes by canonical title
    scans,            \* the runs of scan_transcripts or import_rss started so far
    feed,             \* import-rss: feed.entries
    rss_guid          \* the column episodes.rss_guid, by episode

canonVars == <<text, once, twice, guessed, canon_guess>>
matchVars == <<models, model_index, row, title, canon_title, match>>
linkVars == <<model_variants, episodes, mental_model_id, titles, transcripts, write_fails,
              sheet, schema, committed, dry_run, ep, counts, examples, output>>
moreVars == <<silent_segments, target_time, gap, raw_transcript, cleaned_transcript, files,
              existing_by_model, existing_by_title, scans, feed, rss_guid>>
vars == <<pc, fn, canonVars, matchVars, linkVars, moreVars>>

\* None, told apart from every str
None == <<"None">>

Chars(s) == [k \in 1..Len(s) |-> SubSeq(s, k, k)]

(***************************************************************************)
(* Character classes of Python's str methods and re module.                *)
(***************************************************************************)
UpperSeq == Chars("ABCDEFGHIJKLMNOPQRSTUVWXYZ")
LowerSeq == Chars("abcdefghijklmnopqrstuvwxyz")
Upper == {UpperSeq[k] : k \in 1..Len(UpperSeq)}
Lower == {LowerSeq[k] : k \in 1..Len(LowerSeq)}
Digit == {"0", "1", "2", "3", "4", "5", "6", "7", "8", "9"}
\* \s and str.strip()
Space == {" ", "\n", "\t"}
\* \w: alphanumeric characters (accented letters included) and the underscore
WordChar == Lower \cup Upper \cup Digit \cup {"_", "U+00E9", "U+00C9"}

\* str.lower() of one character
LowerChar(c) ==
    IF c \in Upper THEN LowerSeq[CHOOSE k \in 1..Len(UpperSeq) : UpperSeq[k] = c]
    ELSE IF c = "U+00C9" THEN "U+00E9"
    ELSE c

\* str.lower()
ToLower(s) == [k \in 1..Len(s) |-> LowerChar(s[k])]

\* unicodedata.normalize("NFKD", c) of one character
NFKDChar(c) ==
    IF c = "U+00E9" THEN <<"e", "U+0301">>
    ELSE IF c = "U+00C9" THEN <<"E", "U+0301">>
    ELSE <<c>>

RECURSIVE FlattenRange(_, _, _)
\* "".join(pieces[lo-1:hi]), halving the range
FlattenRange(pieces, lo, hi) ==
    IF lo > hi THEN <<>>
    ELSE IF lo = hi THEN pieces[lo]
    ELSE LET mid == (lo + hi) \div 2
         IN  FlattenRange(pieces, lo, mid) \o FlattenRange(pieces, mid + 1, hi)

\* "".join(pieces)
Flatten(pieces) == FlattenRange(pieces, 1, Len(pieces))

\* unicodedata.normalize("NFKD", s)
NFKD(s) == Flatten([k \in 1..Len(s) |-> NFKDChar(s[k])])

(***************************************************************************)
(* str methods.                                                            *)
(***************************************************************************)
Min(S) == CHOOSE x \in S : \A y \in S : x <= y

\* s[i-1:].startswith(p), i counted from 1
StartsAt(s, i, p) ==
    /\ i >= 1
    /\ i + Len(p) - 1 <= Len(s)
    /\ SubSeq(s, i, i + Len(p) - 1) = p

\* the positions where p occurs in s
Occurrences(s, p) == {i \in 1..(Len(s) - Len(p) + 1) : StartsAt(s, i, p)}

\* p in s
Contains(s, p) == Occurrences(s, p) # {}

\* s.find(p) counted from 1; 0 when p is not in s
Find(s, p) == IF Contains(s, p) THEN Min(Occurrences(s, p)) ELSE 0

RECURSIVE TakenFrom(_, _, _)
\* the occurrences str.replace takes: left to right, none overlapping the one before
TakenFrom(occ, from, width) ==
    IF \A i \in occ : i < from THEN {}
    ELSE LET first == Min({i \in occ : i >= from})
         IN  {first} \cup TakenFrom(occ, first + width, width)

\* s.replace(old, new), old not empty
Replace(s, old, new) ==
    LET taken == TakenFrom(Occurrences(s, old), 1, Len(old))
        piece(k) == IF k \in taken THEN new
                    ELSE IF \E t \in taken : t < k /\ k < t + Len(old) THEN <<>>
                    ELSE <<s[k]>>
    IN  Flatten([k \in 1..Len(s) |-> piece(k)])

\* s.strip(cs)
StripSet(s, cs) ==
    LET kept == {k \in 1..Len(s) : s[k] \notin cs}
    IN  IF kept = {} THEN <<>>
        ELSE SubSeq(s, Min(kept), CHOOSE k \in kept : \A j \in kept : j <= k)

\* s.strip()
Strip(s) == StripSet(s, Space)

\* s.split(":", 1)[0]
BeforeFirst(s, c) == IF Contains(s, <<c>>) THEN SubSeq(s, 1, Find(s, <<c>>) - 1) ELSE s

\* s.split(":", 1)[1], for s with a c in it
AfterFirst(s, c) == SubSeq(s, Find(s, <<c>>) + 1, Len(s))

(***************************************************************************)
(* re.sub of a character class repeated (+) by one replacement.            *)
(***************************************************************************)
\* inside = TRUE: the runs of characters in cs; FALSE: of characters not in cs
SubRuns(s, cs, inside, rep) ==
    LET hit(k) == (s[k] \in cs) = inside
        piece(k) == IF ~hit(k) THEN <<s[k]>>
                    ELSE IF k > 1 /\ hit(k - 1) THEN <<>>
                    ELSE rep
    IN  Flatten([k \in 1..Len(s) |-> piece(k)])

\* re.sub(r"[cs]+", rep, s)
SubRunsIn(s, cs, rep) == SubRuns(s, cs, TRUE, rep)

\* re.sub(r"[^cs]+", rep, s)
SubRunsNotIn(s, cs, rep) == SubRuns(s, cs, FALSE, rep)

(***************************************************************************)
(* Pieces of a regular expression matched from position i; each gives the  *)
(* position after the match, or 0 when there is none (or when i is 0).     *)
(***************************************************************************)
\* a literal
Lit(s, i, p) == IF i >= 1 /\ StartsAt(s, i, p) THEN i + Len(p) ELSE 0

\* [cs]* , greedy
SkipSet(s, i, cs) ==
    IF i = 0 THEN 0
    ELSE Min({j \in i..(Len(s) + 1) : j > Len(s) \/ s[j] \notin cs})

\* \s+ , greedy
WsPlus(s, i) == IF i >= 1 /\ i <= Len(s) /\ s[i] \in Space THEN SkipSet(s, i, Space) ELSE 0

\* (?:p1|p2|...) of literals of which at most one matches at a position
AnyLit(s, i, ps) ==
    IF \E p \in ps : Lit(s, i, p) # 0
    THEN Lit(s, i, CHOOSE p \in ps : Lit(s, i, p) # 0)
    ELSE 0

\* \b after a word character
WordEnd(s, i) == IF i >= 1 /\ (i > Len(s) \/ s[i] \notin WordChar) THEN i ELSE 0

\* s with the match that ends before position e removed from its start
DropMatch(s, e) == IF e = 0 THEN s ELSE SubSeq(s, e, Len(s))

(***************************************************************************)
(* mmtool/names.py: canonicalize_name, the shorter-side-of-colon strategy. *)
(***************************************************************************)
AndWord == Chars(" and ")

\* connector_replacements, applied in the dict's order: "/", "&", "+"
ReplaceConnectors(s) ==
    CHOOSE joined \in
      { Replace(r2, <<"+">>, AndWord) : r2 \in
      { Replace(r1, <<"&">>, AndWord) : r1 \in
      { Replace(s, <<"/">>, AndWord) } } } : TRUE

\* (?:'| a)
ApostropheOrA == {<<"'">>, Chars(" a")}

IntroVerbs ==
    { Chars("diving into"), Chars("examining"), Chars("exploring"),
      Chars("discussing"), Chars("delving into"), Chars("focusing on"),
      Chars("unraveling"), Chars("looking at") }

\* ^(today,?\s+we(?:'| a)re|today we(?:'| a)re)\s+(?:diving into|...)\s+
\* (what the second alternative matches, the first matches too)
TodayLeadIn(s) ==
    LET a == Lit(s, 1, Chars("today"))
        b == IF a # 0 /\ a <= Len(s) /\ s[a] = "," THEN a + 1 ELSE a
        c == Lit(s, WsPlus(s, b), Chars("we"))
        d == Lit(s, AnyLit(s, c, ApostropheOrA), Chars("re"))
        e == AnyLit(s, WsPlus(s, d), IntroVerbs)
    IN  WsPlus(s, e)

\* ^(we(?:'| a)re\s+diving into\s+)
DivingLeadIn(s) ==
    LET a == Lit(s, 1, Chars("we"))
        b == Lit(s, AnyLit(s, a, ApostropheOrA), Chars("re"))
        c == Lit(s, WsPlus(s, b), Chars("diving into"))
    IN  WsPlus(s, c)

\* ^(imagine you(?:'| a)re|imagine you)\s+
ImagineLeadIn(s) ==
    LET a == Lit(s, 1, Chars("imagine you"))
        first == WsPlus(s, Lit(s, AnyLit(s, a, ApostropheOrA), Chars("re")))
    IN  IF first # 0 THEN first ELSE WsPlus(s, a)

Articles == {Chars("a"), Chars("an"), Chars("the")}

GenericWords ==
    { Chars("powerful"), Chars("fascinating"), Chars("fundamental"),
      Chars("revolutionary"), Chars("strategic"), Chars("economic"),
      Chars("psychological"), Chars("concept"), Chars("principle"),
      Chars("tool"), Chars("idea"), Chars("thought experiment"),
      Chars("framework"), Chars("pattern"), Chars("phenomenon"),
      Chars("lens"), Chars("force"), Chars("paradox"), Chars("bias"),
      Chars("model") }

\* [\s:–—-]
LeadInTail == Space \cup {":", "U+2013", "U+2014", "-"}

\* ^(a|an|the)\s+(powerful|...|model)\b[\s:–—-]*
GenericLeadIn(s) ==
    LET ends == {WsPlus(s, Lit(s, 1, p)) : p \in Articles} \ {0}
        a == IF ends = {} THEN 0 ELSE CHOOSE e \in ends : TRUE
        b == WordEnd(s, AnyLit(s, a, GenericWords))
    IN  SkipSet(s, b, LeadInTail)

\* "If there's a colon, choose the shorter side around it"
ShorterSideOfColon(s) ==
    IF Contains(s, <<":">>)
    THEN LET left == Strip(BeforeFirst(s, ":"))
             right == Strip(AfterFirst(s, ":"))
         IN  IF right # <<>> /\ (Len(right) <= Len(left) \/ Len(left) > 40)
             THEN right ELSE left
    ELSE s

\* ['\"“”‘’•·#*]
QuoteChars ==
    {"'", "\"", "U+201C", "U+201D", "U+2018", "U+2019", "U+2022", "U+00B7", "#", "*"}

\* [a-z0-9&/+ ]
NamesKept == Lower \cup Digit \cup {"&", "/", "+", " "}

\* the statements of the body in their order; each s_k is the value of s after a
\* statement and is bound before the next statement reads it
canonicalize_name(s) ==
    IF s = None \/ s = <<>> THEN <<>>
    ELSE CHOOSE key \in
      { Strip(SubRunsIn(s9, Space, <<" ">>)) : s9 \in
      { SubRunsNotIn(s8, NamesKept, <<" ">>) : s8 \in
      { Replace(s7, <<"-">>, <<" ">>) : s7 \in
      { SubRunsIn(s6, QuoteChars, <<" ">>) : s6 \in
      { ShorterSideOfColon(s5) : s5 \in
      { DropMatch(s4, GenericLeadIn(s4)) : s4 \in
      { DropMatch(s3, ImagineLeadIn(s3)) : s3 \in
      { DropMatch(s2, DivingLeadIn(s2)) : s2 \in
      { DropMatch(s1, TodayLeadIn(s1)) : s1 \in
      { ReplaceConnectors(s0) : s0 \in
      { Strip(ToLower(s)) } } } } } } } } } } } : TRUE

(***************************************************************************)
(* mm_tool.py: canonicalize_name, the truncate-after-colon strategy.       *)
(***************************************************************************)
\* replacements, applied in the dict's order
ReplacePhrases(s) ==
    CHOOSE replaced \in
      { Replace(r8, <<"U+201D">>, <<"\"">>) : r8 \in
      { Replace(r7, <<"U+201C">>, <<"\"">>) : r7 \in
      { Replace(r6, <<"U+2019">>, <<"'">>) : r6 \in
      { Replace(r5, <<"U+2018">>, <<"'">>) : r5 \in
      { Replace(r4, <<"U+2014">>, <<" ">>) : r4 \in
      { Replace(r3, <<"U+2013">>, <<" ">>) : r3 \in
      { Replace(r2, Chars(" vs "), Chars(" vs ")) : r2 \in
      { Replace(r1, Chars(" vs. "), Chars(" vs ")) : r1 \in
      { Replace(s, Chars(" versus "), Chars(" vs ")) } } } } } } } } } : TRUE

\* [a-z0-9& ]
MmToolKept == Lower \cup Digit \cup {"&", " "}

mm_tool_canonicalize_name(name) ==
    IF name = None \/ name = <<>> THEN <<>>
    ELSE CHOOSE key \in
      { Strip(SubRunsIn(n4, Space, <<" ">>)) : n4 \in
      { SubRunsNotIn(n3, MmToolKept, <<" ">>) : n3 \in
      { ReplacePhrases(n2) : n2 \in
      { ReplaceConnectors(n1) : n1 \in
      { ToLower(n0) : n0 \in
      { NFKD(BeforeFirst(name, ":")) } } } } } } : TRUE

\* the canonicalize_name of module f
Canon(f, s) == IF f = "names" THEN canonicalize_name(s) ELSE mm_tool_canonicalize_name(s)

(***************************************************************************)
(* difflib.SequenceMatcher(None, a, b).ratio(), as mm_tool.py uses it (no  *)
(* junk; strings far below the 200 characters where autojunk starts).  A   *)
(* float 2.0*M/T is the pair <<2M, T>>: floats of this form compare as the *)
(* fractions do, and 0.7 and 0.8 are the floats nearest 7/10 and 8/10.     *)
(***************************************************************************)
\* how far a[i..ahi] and b[j..bhi] agree from their starts
CommonPrefixLen(a, i, ahi, b, j, bhi) ==
    LET most == IF ahi - i <= bhi - j THEN ahi - i + 1 ELSE bhi - j + 1
        same == {k \in 0..most : \A t \in 0..(k - 1) : a[i + t] = b[j + t]}
    IN  CHOOSE k \in same : \A m \in same : m <= k

\* SequenceMatcher.find_longest_match: <<i, j, k>>, the longest block, of those the
\* one starting earliest in a, and of those the one starting earliest in b
find_longest_match(a, b, alo, ahi, blo, bhi) ==
    LET len(i, j) == CommonPrefixLen(a, i, ahi, b, j, bhi)
        places == (alo..ahi) \X (blo..bhi)
        best == IF places = {} THEN 0
                ELSE CHOOSE k \in 0..(ahi - alo + 1) :
                        /\ \E p \in places : len(p[1], p[2]) = k
                        /\ \A p \in places : len(p[1], p[2]) <= k
    IN  IF best = 0 THEN <<alo, blo, 0>>
        ELSE LET i == Min({p[1] : p \in {q \in places : len(q[1], q[2]) = best}})
                 j == Min({jj \in blo..bhi : len(i, jj) = best})
             IN  <<i, j, best>>

RECURSIVE MatchedChars(_, _, _, _, _, _)
\* the sum of the sizes of SequenceMatcher.get_matching_blocks within the ranges
MatchedChars(a, b, alo, ahi, blo, bhi) ==
    IF alo > ahi \/ blo > bhi THEN 0
    ELSE LET m == find_longest_match(a, b, alo, ahi, blo, bhi)
         IN  IF m[3] = 0 THEN 0
             ELSE m[3] + MatchedChars(a, b, alo, m[1] - 1, blo, m[2] - 1)
                       + MatchedChars(a, b, m[1] + m[3], ahi, m[2] + m[3], bhi)

\* SequenceMatcher(None, a, b).ratio()
Ratio(a, b) ==
    IF Len(a) + Len(b) = 0 THEN <<1, 1>>
    ELSE <<2 * MatchedChars(a, b, 1, Len(a), 1, Len(b)), Len(a) + Len(b)>>

\* x > y and x >= y of two floats
Gt(x, y) == x[1] * y[2] > y[1] * x[2]
Ge(x, y) == x[1] * y[2] >= y[1] * x[2]

(***************************************************************************)
(* build_mental_model_index (mmtool/names.py and mm_tool.py: the same loop *)
(* over the rows, each with the canonicalize_name of its module).  A dict  *)
(* is the sequence of its entries in insertion order; an entry is the      *)
(* model dict {"id", "name", "canon_name"}.                                *)
(***************************************************************************)
\* None where a model dict is expected
NoModel == [id |-> 0, name |-> None, canon_name |-> None]

\* model_index.get(key)
IndexGet(index, key) ==
    IF \E k \in 1..Len(index) : index[k].canon_name = key
    THEN index[CHOOSE k \in 1..Len(index) : index[k].canon_name = key]
    ELSE NoModel

\* a map on which the first entry of a key wins
IndexPutFirstWins(index, entry) ==
    IF \E k \in 1..Len(index) : index[k].canon_name = entry.canon_name
    THEN index
    ELSE Append(index, entry)

\* model_index[canon] = entry: a key already there keeps its place
IndexPut(index, entry) ==
    IF \E k \in 1..Len(index) : index[k].canon_name = entry.canon_name
    THEN [k \in 1..Len(index) |->
            IF index[k].canon_name = entry.canon_name THEN entry ELSE index[k]]
    ELSE Append(index, entry)

\* the loop body without its "if canon:" guard
IndexInsertUnguarded(f, index, r) ==
    LET canon == Canon(f, r.name)
    IN  IndexPut(index, [id |-> r.id, name |-> r.name, canon_name |-> canon])

\* the loop body keyed by the unnormalised display name
IndexInsertRawKey(f, index, r) ==
    IF r.name # <<>>
    THEN IndexPut(index, [id |-> r.id, name |-> r.name, canon_name |-> r.name])
    ELSE index

\* the body of the loop over the rows
IndexInsert(f, index, r) ==
    CHOOSE filled \in
        { IF canon # <<>>
          THEN IndexPut(index, [id |-> r.id, name |-> r.name, canon_name |-> canon])
          ELSE index : canon \in {Canon(f, r.name)} } : TRUE

RECURSIVE IndexOfRows(_, _, _)
\* model_index after the first n rows
IndexOfRows(f, rows, n) ==
    IF n = 0 THEN <<>>
    ELSE CHOOSE filled \in
            { IndexInsert(f, before, rows[n]) :
                before \in {IndexOfRows(f, rows, n - 1)} } : TRUE

build_mental_model_index(f, rows) == IndexOfRows(f, rows, Len(rows))

(***************************************************************************)
(* mm_tool.py: get_best_model_match.                                       *)
(***************************************************************************)
\* a containment threshold of 60%
SubstringThresholdLow == <<6, 10>>

SubstringThreshold == <<7, 10>>
FuzzyThreshold == <<8, 10>>

NoMatch == [model |-> NoModel, type |-> "None", score |-> <<0, 1>>]

\* canon_title in model_canon or model_canon in canon_title
EitherContains(query, model_canon) ==
    Contains(model_canon, query) \/ Contains(query, model_canon)

\* the first loop's pass without the early return of the exact match
SubstringStepNoExact(query, entry, best) ==
    IF /\ \/ Contains(entry.canon_name, query)
          \/ Contains(query, entry.canon_name)
       /\ Gt(Ratio(query, entry.canon_name), best.score)
    THEN [returned |-> FALSE, model |-> entry, type |-> "substring",
          score |-> Ratio(query, entry.canon_name)]
    ELSE best

\* one pass of the first loop: the exact match returns, a containing or contained
\* key with a higher ratio becomes the best
SubstringStep(query, entry, best) ==
    IF query = entry.canon_name
    THEN [returned |-> TRUE, model |-> entry, type |-> "exact", score |-> <<1, 1>>]
    ELSE IF /\ EitherContains(query, entry.canon_name)
            /\ Gt(Ratio(query, entry.canon_name), best.score)
         THEN [returned |-> FALSE, model |-> entry, type |-> "substring",
               score |-> Ratio(query, entry.canon_name)]
         ELSE best

RECURSIVE SubstringLoop(_, _, _)
\* the first loop over model_index.items(), up to entry n
SubstringLoop(query, index, n) ==
    IF n = 0
    THEN [returned |-> FALSE, model |-> NoModel, type |-> "None", score |-> <<0, 1>>]
    ELSE LET before == SubstringLoop(query, index, n - 1)
         IN  IF before.returned THEN before
             ELSE SubstringStep(query, index[n], before)

\* one pass of the second loop
FuzzyStep(query, entry, best) ==
    IF Gt(Ratio(query, entry.canon_name), best.score)
    THEN [returned |-> FALSE, model |-> entry, type |-> "fuzzy",
          score |-> Ratio(query, entry.canon_name)]
    ELSE best

RECURSIVE FuzzyLoop(_, _, _, _)
\* the second loop, started from what the first left in best_*
FuzzyLoop(query, index, n, start) ==
    IF n = 0 THEN start
    ELSE FuzzyStep(query, index[n], FuzzyLoop(query, index, n - 1, start))

Returned(best) == [model |-> best.model, type |-> best.type, score |-> best.score]

get_best_model_match(query, index) ==
    LET first == SubstringLoop(query, index, Len(index))
        second == FuzzyLoop(query, index, Len(index), first)
    IN  IF first.returned THEN Returned(first)
        ELSE IF first.model # NoModel /\ Ge(first.score, SubstringThreshold)
             THEN Returned(first)
        ELSE IF second.model # NoModel /\ Ge(second.score, FuzzyThreshold)
             THEN Returned(second)
        ELSE NoMatch

(***************************************************************************)
(* mmtool/transcripts.py: guess_model_name_from_text.  A regular           *)
(* expression is the operator that gives, for a start position, the span   *)
(* <<first, end>> of its group (end excluded), <<0, 0>> without a match;   *)
(* re.search takes the leftmost start that matches.                        *)
(***************************************************************************)
NoSpan == <<0, 0>>

Letter == Upper \cup Lower

\* [\.!\n]
Terminators == {".", "!", "\n"}

\* [A-Za-z0-9' \-/&]
NameClass == Upper \cup Lower \cup Digit \cup {"'", " ", "-", "/", "&"}

\* the end of (?P<name>.+?)(?:[\.!\n]|$) for a name that starts at p
LazyNameEnd(s, p) ==
    Min({e \in (p + 1)..(Len(s) + 1) : e > Len(s) \/ s[e] \in Terminators})

\* \s+ before (?P<name>.+?): the name starts after the white space, or is the last
\* white space character when nothing comes after it
NameStartAfter(s, i) ==
    LET w == WsPlus(s, i)
    IN  IF w = 0 THEN 0
        ELSE IF w <= Len(s) THEN w
        ELSE IF w - i >= 2 THEN Len(s)
        ELSE 0

\* \s+(?:the\s+concept\s+of\s+)?(?P<name>.+?): where the name starts
NameStartAfterConceptOf(s, i) ==
    LET w == WsPlus(s, i)
        a == Lit(s, WsPlus(s, Lit(s, w, Chars("the"))), Chars("concept"))
        b == NameStartAfter(s, Lit(s, WsPlus(s, a), Chars("of")))
    IN  IF b # 0 THEN b ELSE NameStartAfter(s, i)

LazyName(s, p) == IF p = 0 THEN NoSpan ELSE <<p, LazyNameEnd(s, p)>>

\* we(?:'| a)re\s+(?:diving into|...) from position i: the position after the verb
WeAreVerb(l, i, verbs) ==
    LET a == Lit(l, AnyLit(l, Lit(l, i, Chars("we")), ApostropheOrA), Chars("re"))
    IN  AnyLit(l, WsPlus(l, a), verbs)

\* INTRO_PATTERNS[0]; l is the text lowered, as re.IGNORECASE compares
IntroPattern1(l, i) ==
    LazyName(l, NameStartAfter(l,
        WeAreVerb(l, WsPlus(l, Lit(l, i, Chars("today,"))), IntroVerbs)))

\* INTRO_PATTERNS[1]
IntroPattern2(l, i) ==
    LazyName(l, NameStartAfterConceptOf(l,
        WeAreVerb(l, WsPlus(l, Lit(l, i, Chars("today"))), IntroVerbs)))

\* :\s*(?P<name>[A-Z][^\.!\n]+) with the colon at c
ColonName(l, c) ==
    LET p == SkipSet(l, c + 1, Space)
    IN  IF /\ p + 1 <= Len(l)
           /\ l[p] \in Letter
           /\ l[p + 1] \notin Terminators
        THEN <<p, LazyNameEnd(l, p)>>
        ELSE NoSpan

\* INTRO_PATTERNS[2]: Today.*?: takes the first colon that a name follows
IntroPattern3(l, i) ==
    LET a == Lit(l, i, Chars("today"))
        colons == {c \in a..Len(l) : a # 0 /\ l[c] = ":" /\ ColonName(l, c) # NoSpan}
    IN  IF colons = {} THEN NoSpan ELSE ColonName(l, Min(colons))

\* INTRO_PATTERNS[3]
IntroPattern4(l, i) ==
    LazyName(l, NameStartAfterConceptOf(l, WeAreVerb(l, i, {Chars("diving into")})))

IntroPattern(n, l, i) ==
    CASE n = 1 -> IntroPattern1(l, i)
      [] n = 2 -> IntroPattern2(l, i)
      [] n = 3 -> IntroPattern3(l, i)
      [] n = 4 -> IntroPattern4(l, i)

\* re.search(INTRO_PATTERNS[n - 1], snippet, re.IGNORECASE | re.DOTALL)
SearchIntro(n, snippet) ==
    CHOOSE span \in UNION
      { { IF starts = {} THEN NoSpan ELSE IntroPattern(n, l, Min(starts)) :
            starts \in {{i \in 1..Len(l) : IntroPattern(n, l, i) # NoSpan}} } :
          l \in {ToLower(snippet)} } : TRUE

Group(s, span) == SubSeq(s, span[1], span[2] - 1)

\* raw.strip(" .:\"'...") with the four curly quotes
CleanChars == {" ", ".", ":", "\"", "'", "U+201C", "U+201D", "U+2018", "U+2019"}
clean_raw_name(raw) == StripSet(raw, CleanChars)

\* \bword\b at position k
WordAt(s, k, word) ==
    /\ StartsAt(s, k, word)
    /\ k = 1 \/ s[k - 1] \notin WordChar
    /\ WordEnd(s, k + Len(word)) # 0

\* re.split(r"(,|\bwhich\b|\bthat\b)", name)[0].strip()
BeforeCommaWhichThat(name) ==
    LET cuts == {k \in 1..Len(name) :
                    \/ name[k] = ","
                    \/ WordAt(name, k, Chars("which"))
                    \/ WordAt(name, k, Chars("that"))}
    IN  IF cuts = {} THEN Strip(name) ELSE Strip(SubSeq(name, 1, Min(cuts) - 1))

MaxNameLen == 140

\* the body of "if m:" in the loop over INTRO_PATTERNS
IntroName(snippet, span) ==
    LET name == clean_raw_name(Group(snippet, span))
        short == IF Len(name) > MaxNameLen THEN BeforeCommaWhichThat(name) ELSE name
    IN  IF short = <<>> THEN None ELSE short

\* snippet.splitlines()[0] if snippet.splitlines() else snippet
FirstLine(snippet) == BeforeFirst(snippet, "\n")

\* [A-Z][A-Za-z0-9' \-/&]{min,80}, greedy, from position p: the end of the longest
\* run, 0 without a match
NameRunEnd(s, p, min) ==
    IF p >= 1 /\ p <= Len(s) /\ s[p] \in Upper
    THEN LET e == Min({SkipSet(s, p + 1, NameClass), p + 81})
         IN  IF e - (p + 1) >= min THEN e ELSE 0
    ELSE 0

\* (\*\*|__)? at position i
OptionalEmphasis(s, i) ==
    LET e == AnyLit(s, i, {Chars("**"), Chars("__")})
    IN  IF e # 0 THEN e ELSE i

\* ^\s*(\*\*|__)?(?P<name>[A-Z][A-Za-z0-9' \-/&]{3,80})(\*\*|__)?\s*$
HeadingName(line) ==
    LET p == OptionalEmphasis(line, SkipSet(line, 1, Space))
        e == NameRunEnd(line, p, 3)
        ends == {k \in (p + 4)..e :
                    SkipSet(line, OptionalEmphasis(line, k), Space) = Len(line) + 1}
    IN  IF e = 0 \/ ends = {} THEN NoSpan
        ELSE <<p, CHOOSE k \in ends : \A j \in ends : j <= k>>

Copulas ==
    {Chars("is"), Chars("are"), Chars("teaches"), Chars("highlights"), Chars("explains")}

\* \b(?P<name>[A-Z]...{3,80})\s+(?:is|are|teaches|highlights|explains)\b at p: the
\* longest name that a copula follows
CopulaName(s, p) ==
    LET e == NameRunEnd(s, p, 3)
        ends == {k \in (p + 4)..e :
                    WordEnd(s, AnyLit(s, WsPlus(s, k), Copulas)) # 0}
    IN  IF e = 0 \/ ends = {} \/ (p > 1 /\ s[p - 1] \in WordChar) THEN NoSpan
        ELSE <<p, CHOOSE k \in ends : \A j \in ends : j <= k>>

BadPrefixes ==
    { Chars("this concept"), Chars("this principle"), Chars("this model"),
      Chars("this idea"), Chars("this bias") }

OpenQuotes == {"\"", "U+201C", "U+2018", "'"}
CloseQuotes == {"\"", "U+201D", "U+2019", "'"}

\* ["...'](?P<q>[A-Z][A-Za-z0-9' \-/&]{2,80})["...'] with the opening quote at p
QuotedName(s, p) ==
    LET e == NameRunEnd(s, p + 1, 2)
        ends == {k \in (p + 4)..e : k <= Len(s) /\ s[k] \in CloseQuotes}
    IN  IF s[p] \notin OpenQuotes \/ e = 0 \/ ends = {} THEN NoSpan
        ELSE <<p + 1, CHOOSE k \in ends : \A j \in ends : j <= k>>

\* \bthe\s+(?P<name>[A-Z][A-Za-z0-9' \-/&]{3,80}) at p
TheName(s, p) ==
    LET n == WsPlus(s, Lit(s, p, Chars("the")))
        e == NameRunEnd(s, n, 3)
    IN  IF e = 0 \/ (p > 1 /\ s[p - 1] \in WordChar) THEN NoSpan ELSE <<n, e>>

\* ^(mental models daily|host)\b, re.IGNORECASE
NotAModel(candidate) ==
    LET l == ToLower(candidate)
    IN  WordEnd(l, AnyLit(l, 1, {Chars("mental models daily"), Chars("host")})) # 0

Fallback(n, s, p) ==
    CASE n = 3 -> CopulaName(s, p)
      [] n = 4 -> QuotedName(s, p)
      [] n = 5 -> TheName(s, p)

\* re.search of the patterns of steps 3, 4 and 5
SearchFallback(n, snippet) ==
    LET starts == {p \in 1..Len(snippet) : Fallback(n, snippet, p) # NoSpan}
    IN  IF starts = {} THEN NoSpan ELSE Fallback(n, snippet, Min(starts))

\* steps 2 to 5, tried when no intro pattern matches
GuessWithoutIntro(snippet) ==
    LET line == FirstLine(snippet)
        heading == HeadingName(line)
        copula == SearchFallback(3, snippet)
        subject == clean_raw_name(Group(snippet, copula))
        quoted == SearchFallback(4, snippet)
        the == SearchFallback(5, snippet)
        candidate == clean_raw_name(Group(snippet, the))
    IN  IF heading # NoSpan THEN clean_raw_name(Group(line, heading))
        ELSE IF /\ copula # NoSpan
                /\ \A bp \in BadPrefixes : ~StartsAt(ToLower(subject), 1, bp)
             THEN subject
        ELSE IF quoted # NoSpan THEN clean_raw_name(Group(snippet, quoted))
        ELSE IF the # NoSpan /\ ~NotAModel(candidate) THEN candidate
        ELSE None

MaxSnippet == 2000

guess_model_name_from_text(t) ==
    IF t = None \/ t = <<>> THEN None
    ELSE CHOOSE name \in UNION
      { { IF matching # {}
          THEN IntroName(snippet, SearchIntro(Min(matching), snippet))
          ELSE GuessWithoutIntro(snippet) :
            matching \in {{n \in 1..4 : SearchIntro(n, snippet) # NoSpan}} } :
          snippet \in {NFKD(SubSeq(t, 1, Min({Len(t), MaxSnippet})))} } : TRUE

(***************************************************************************)
(* The strings the canonicalizers are applied to: phrases of up to         *)
(* MaxWords words joined by separators, and the names and titles of the    *)
(* documented scenarios.                                                   *)
(***************************************************************************)
MaxWords == 3

CanonWords == {Chars("the"), Chars("concept"), Chars("x"), Chars("versus"), Chars("Y's")}

CanonSeps == {Chars(" "), Chars("-"), Chars(": ")}

RECURSIVE Phrases(_)
Phrases(n) ==
    IF n <= 1 THEN CanonWords
    ELSE {p \o sep \o w : p \in Phrases(n - 1), sep \in CanonSeps, w \in CanonWords}

ScenarioTexts ==
    { Chars("Occam's Razor"), Chars("Hanlon's Razor"),
      Chars("occams razor: the simplicity principle"),
      Chars("Caf") \o <<"U+00E9">> \o Chars(" Society & Co"),
      Chars("Today, we're exploring Map vs. Territory") }

CanonInputs == {None, <<>>} \cup ScenarioTexts \cup UNION {Phrases(n) : n \in 1..MaxWords}

\* the counters of auto_link_models_from_transcripts before its loop
NoCounts == [linked |-> 0, already_linked |-> 0, no_match |-> 0, ambiguous |-> 0]

\* no gap search is under way
NoGap ==
    /\ silent_segments = <<>>
    /\ target_time = 0
    /\ gap = <<>>

\* no transcript is being cleaned
NoCleaning ==
    /\ raw_transcript = <<>>
    /\ cleaned_transcript = <<>>

\* no scan and no feed import is under way
NoScan ==
    /\ files = <<>>
    /\ existing_by_model = <<>>
    /\ existing_by_title = <<>>
    /\ scans = 0
    /\ feed = <<>>
    /\ rss_guid = <<>>

NoMore == NoGap /\ NoCleaning /\ NoScan

\* no auto-link run is under way
NoLinkRun ==
    /\ model_variants = <<>>
    /\ episodes = <<>>
    /\ mental_model_id = <<>>
    /\ titles = <<>>
    /\ transcripts = <<>>
    /\ write_fails = {}
    /\ sheet = <<>>
    /\ schema = <<>>
    /\ committed = FALSE
    /\ dry_run = FALSE
    /\ ep = 1
    /\ counts = NoCounts
    /\ examples = <<>>
    /\ output = <<>>

(***************************************************************************)
(* SpecCanon: a canonicalizer applied to a string, then to its own output. *)
(***************************************************************************)
InitCanon ==
    /\ pc = "start"
    /\ fn \in {"names", "mm_tool"}
    /\ text \in CanonInputs
    /\ once = None
    /\ twice = None
    /\ guessed = None
    /\ canon_guess = None
    /\ models = <<>>
    /\ model_index = <<>>
    /\ row = 1
    /\ title = None
    /\ canon_title = None
    /\ match = NoMatch
    /\ NoLinkRun
    /\ NoMore

\* key = canonicalize_name(text)
Canonicalize ==
    /\ pc = "start"
    /\ once' = Canon(fn, text)
    /\ pc' = "once"
    /\ UNCHANGED <<fn, text, twice, guessed, canon_guess, matchVars, linkVars, moreVars>>

\* canonicalize_name(key)
Recanonicalize ==
    /\ pc = "once"
    /\ twice' = Canon(fn, once)
    /\ pc' = "twice"
    /\ UNCHANGED <<fn, text, once, guessed, canon_guess, matchVars, linkVars, moreVars>>

NextCanon == Canonicalize \/ Recanonicalize

SpecCanon == InitCanon /\ [][NextCanon]_vars

(***************************************************************************)
(* SpecGuess: the transcript-guess step of linking.py's                    *)
(* auto_link_models_from_transcripts: the name is guessed from the         *)
(* transcript and, when there is a guess, canonicalized for the lookup.    *)
(***************************************************************************)
Openers == {Chars("Today, "), Chars("Today "), <<>>}
WeAre == {Chars("we're "), Chars("we are ")}
ConceptOf == Chars("the concept of ")
Concepts == {Chars("Opportunity Cost"), Chars("Inversion")}
Tails == {Chars("."), Chars(". It changes everything.")}

OpenerTexts ==
    { o \o w \o v \o <<" ">> \o c \o n \o t :
        o \in Openers, w \in WeAre, v \in IntroVerbs, c \in {<<>>, ConceptOf},
        n \in Concepts, t \in Tails }

OtherTexts ==
    { <<>>, Chars("**Utilitarianism**\nA theory of value."),
      Chars("Opportunity Cost is the value of the next best choice."),
      Chars("This concept is hard. We call it \"Error Bars\" here."),
      Chars("welcome to Mental Models Daily, on the Filter Bubble."),
      Chars("Today, a powerful tool: Error Bars. More soon."),
      Chars("nothing to see here") }

GuessTexts == OpenerTexts \cup OtherTexts

InitGuess ==
    /\ pc = "start"
    /\ fn = "names"
    /\ text \in GuessTexts
    /\ once = None
    /\ twice = None
    /\ guessed = None
    /\ canon_guess = None
    /\ models = <<>>
    /\ model_index = <<>>
    /\ row = 1
    /\ title = None
    /\ canon_title = None
    /\ match = NoMatch
    /\ NoLinkRun
    /\ NoMore

\* guessed_name = guess_model_name_from_text(transcript)
Guess ==
    /\ pc = "start"
    /\ guessed' = guess_model_name_from_text(text)
    /\ pc' = "guessed"
    /\ UNCHANGED <<fn, text, once, twice, canon_guess, matchVars, linkVars, moreVars>>

\* if guessed_name: canon_guess = canonicalize_name(guessed_name)
CanonGuess ==
    /\ pc = "guessed"
    /\ guessed # None
    /\ canon_guess' = canonicalize_name(guessed)
    /\ pc' = "keyed"
    /\ UNCHANGED <<fn, text, once, twice, guessed, matchVars, linkVars, moreVars>>

NextGuess == Guess \/ CanonGuess

SpecGuess == InitGuess /\ [][NextGuess]_vars

(***************************************************************************)
(* SpecMatch: the index is built from the rows of mental_models, one row a *)
(* step, and a title is matched against it: by get_best_model_match, as    *)
(* mm_tool.repair_model_links does (fn = "mm_tool"), or by model_index.get *)
(* as import_rss and the title step of auto-link do (fn = "names").        *)
(***************************************************************************)
MaxModels == 2

ModelNames ==
    { Chars("Occam's Razor"), Chars("Hanlon's Razor"), Chars("abcd"), Chars("Abcd"),
      Chars("abcdefxyz"), Chars("The Model"), Chars("?") }

MatchTitles ==
    ModelNames \cup
    { Chars("occams razor: the simplicity principle"), Chars("Top mental models: abcd"),
      Chars("abcdef"), Chars("abxxcd"), Chars("ab"), <<>> }

\* the tables of n rows: name is NOT NULL UNIQUE, id the autoincremented key
Tables(n) ==
    {t \in [1..n -> ModelNames] : \A j, k \in 1..n : j # k => t[j] # t[k]}

RowsOf(t) == [k \in 1..Len(t) |-> [id |-> k, name |-> t[k]]]

InitMatch ==
    /\ pc = "build"
    /\ fn \in {"names", "mm_tool"}
    /\ \E n \in 0..MaxModels : \E t \in Tables(n) : models = RowsOf(t)
    /\ title \in MatchTitles
    /\ model_index = <<>>
    /\ row = 1
    /\ canon_title = None
    /\ match = NoMatch
    /\ NoLinkRun
    /\ text = None
    /\ once = None
    /\ twice = None
    /\ guessed = None
    /\ canon_guess = None
    /\ NoLinkRun
    /\ NoMore

\* for row in models: one pass
BuildIndexRow ==
    /\ pc = "build"
    /\ row <= Len(models)
    /\ model_index' = IndexInsert(fn, model_index, models[row])
    /\ row' = row + 1
    /\ UNCHANGED <<pc, fn, canonVars, models, title, canon_title, match, linkVars, moreVars>>

\* return model_index
BuildIndexDone ==
    /\ pc = "build"
    /\ row > Len(models)
    /\ pc' = "indexed"
    /\ UNCHANGED <<fn, canonVars, matchVars, linkVars, moreVars>>

\* mm_tool.repair_model_links: if not title.strip(): skipped += 1; continue
SkipTitle ==
    /\ pc = "indexed"
    /\ fn = "mm_tool"
    /\ Strip(title) = <<>>
    /\ pc' = "skipped"
    /\ UNCHANGED <<fn, canonVars, matchVars, linkVars, moreVars>>

\* mm_tool.repair_model_links: canon_title = canonicalize_name(title);
\* get_best_model_match(canon_title, model_index)
MatchTitle ==
    /\ pc = "indexed"
    /\ fn = "mm_tool"
    /\ Strip(title) # <<>>
    /\ canon_title' = mm_tool_canonicalize_name(title)
    /\ match' = get_best_model_match(canon_title', model_index)
    /\ pc' = "matched"
    /\ UNCHANGED <<fn, canonVars, models, model_index, row, title, linkVars, moreVars>>

\* import_rss, auto-link: canon_title = canonicalize_name(title);
\* mm = model_index.get(canon_title)
LookupTitle ==
    /\ pc = "indexed"
    /\ fn = "names"
    /\ canon_title' = canonicalize_name(title)
    /\ match' = LET mm == IndexGet(model_index, canon_title')
                IN  IF mm = NoModel THEN NoMatch
                    ELSE [model |-> mm, type |-> "exact", score |-> <<1, 1>>]
    /\ pc' = "matched"
    /\ UNCHANGED <<fn, canonVars, models, model_index, row, title, linkVars, moreVars>>

NextMatch == BuildIndexRow \/ BuildIndexDone \/ SkipTitle \/ MatchTitle \/ LookupTitle

SpecMatch == InitMatch /\ [][NextMatch]_vars

\* C1: each canonicalizer is idempotent: applied to its own output it returns
\* that output unchanged.
C1_Idempotent == pc = "twice" => twice = once

(***************************************************************************)
(* mmtool/linking.py: auto_link_models_from_transcripts.                   *)
(***************************************************************************)
\* NULL in an INTEGER column; the ids of rows start at 1
NullId == 0

MinVariantLen == 4
AmbiguityMargin == 5
MaxExamples == 15

\* (x or "")
OrEmpty(x) == IF x = None THEN <<>> ELSE x

VsForms == {Chars(" vs "), Chars(" vs. "), Chars(" versus ")}

\* the set variants of one model, built from base = raw_name.lower()
VariantSet(base) ==
    {base}
    \cup (IF StartsAt(base, 1, Chars("the ")) THEN {SubSeq(base, 5, Len(base))} ELSE {})
    \cup (IF Contains(base, <<"(">>) /\ Strip(BeforeFirst(base, "(")) # <<>>
          THEN {Strip(BeforeFirst(base, "("))} ELSE {})
    \cup UNION { IF Contains(base, from) THEN {Replace(base, from, to) : to \in VsForms \ {from}}
                 ELSE {} : from \in VsForms }

\* the variants of one row with the ones under 4 characters kept
UsableVariantsAnyLength(r) ==
    LET raw_name == Strip(OrEmpty(r.name))
    IN  IF raw_name = <<>> THEN {}
        ELSE {Strip(w) : w \in VariantSet(ToLower(raw_name))}

\* the variants of one row that are appended to model_variants: stripped, and of
\* at least 4 characters
UsableVariants(r) ==
    LET raw_name == Strip(OrEmpty(r.name))
    IN  IF raw_name = <<>> THEN {}
        ELSE {v \in {Strip(w) : w \in VariantSet(ToLower(raw_name))} : Len(v) >= MinVariantLen}

\* model_variants, a model's entries gathered in one entry, each variant with its
\* length: the order of the entries of one model is that of a set and nothing reads it
VariantsOfRows(rows) ==
    LET entry(k, vs) == [model_id |-> rows[k].id,
                         model_name |-> Strip(OrEmpty(rows[k].name)),
                         variants |-> {[variant |-> v, length |-> Len(v)] : v \in vs}]
        kept(all) == {k \in 1..Len(rows) : all[k] # {}}
        nth(all, n) == CHOOSE k \in kept(all) : Cardinality({j \in kept(all) : j <= k}) = n
    IN  CHOOSE built \in
            { [n \in 1..Cardinality(kept(all)) |-> entry(nth(all, n), all[nth(all, n)])] :
                all \in {<<>> \o [k \in 1..Len(rows) |-> UsableVariants(rows[k])]} } : TRUE

MaxOf(S) == CHOOSE x \in S : \A y \in S : y <= x

\* by_model.values(): for every model with a variant in blob, the longest such
\* variant's entry, in the order of model_variants
ByModel(variants, blob) ==
    LET found(n) == {v \in variants[n].variants : Contains(blob, v.variant)}
        hit == {n \in 1..Len(variants) : found(n) # {}}
        nth(m) == CHOOSE n \in hit : Cardinality({j \in hit : j <= n}) = m
    IN  [m \in 1..Cardinality(hit) |->
            [model_id |-> variants[nth(m)].model_id,
             model_name |-> variants[nth(m)].model_name,
             length |-> MaxOf({v.length : v \in found(nth(m))})]]

\* sorted(by_model.values(), key=length, reverse=True)[0] and [1], as positions in
\* by_model: sorted is stable, of equal lengths the earlier entry comes first
TopOf(by_model, excluded) ==
    LET rest == (1..Len(by_model)) \ excluded
        longest == MaxOf({by_model[k].length : k \in rest})
    IN  Min({k \in rest : by_model[k].length = longest})

NoChoice == [model_id |-> 0, model_name |-> None, reason |-> "none"]

\* the step with the margin required to be exceeded, not reached
PickByMarginStrict(by_model) ==
    LET top == by_model[TopOf(by_model, {})]
        second == by_model[TopOf(by_model, {TopOf(by_model, {})})]
        pick(m) == [model_id |-> m.model_id, model_name |-> m.model_name,
                    reason |-> "substring_match"]
    IN  IF Len(by_model) = 0 THEN [NoChoice EXCEPT !.reason = "no_match"]
        ELSE IF Len(by_model) = 1 THEN pick(by_model[1])
        ELSE IF top.length > second.length + AmbiguityMargin THEN pick(top)
        ELSE [NoChoice EXCEPT !.reason = "ambiguous"]

\* what the variant-substring step does with by_model: the chosen model, or
\* "no_match" or "ambiguous"
PickByMargin(by_model) ==
    LET top == by_model[TopOf(by_model, {})]
        second == by_model[TopOf(by_model, {TopOf(by_model, {})})]
        pick(m) == [model_id |-> m.model_id, model_name |-> m.model_name,
                    reason |-> "substring_match"]
    IN  IF Len(by_model) = 0 THEN [NoChoice EXCEPT !.reason = "no_match"]
        ELSE IF Len(by_model) = 1 THEN pick(by_model[1])
        ELSE IF top.length >= second.length + AmbiguityMargin THEN pick(top)
        ELSE [NoChoice EXCEPT !.reason = "ambiguous"]

\* the variant-substring step on blob = lowered
SubstringMatch(entries, lowered) ==
    CHOOSE chosen \in
        { PickByMargin(by_model) :
            by_model \in {ByModel(entries, blob) : blob \in {lowered}} } : TRUE

\* mm = model_index.get(canon) and what is chosen "if mm"
LookupChoice(lookup, canon, reason) ==
    CHOOSE chosen \in
        { IF mm = NoModel THEN NoChoice
          ELSE [model_id |-> mm.id, model_name |-> mm.name, reason |-> reason] :
            mm \in {IndexGet(lookup, key) : key \in {canon}} } : TRUE

\* the transcript-guess step
GuessChoice(by_key, transcript) ==
    CHOOSE chosen \in
        { IF guessed_name = None THEN NoChoice
          ELSE LookupChoice(by_key, canonicalize_name(guessed_name), "transcript_guess") :
            guessed_name \in {guess_model_name_from_text(transcript)} } : TRUE

\* the loop body with the variant-substring step tried first
ChooseModelVariantFirst(idx, mvs, e) ==
    CHOOSE chosen \in
        { IF by_variant.reason = "substring_match" THEN by_variant
          ELSE IF by_guess # NoChoice THEN by_guess
          ELSE IF by_title # NoChoice THEN by_title
          ELSE by_variant :
            by_variant \in {SubstringMatch(mvs, ToLower(OrEmpty(e.title) \o <<"\n">>
                                                        \o OrEmpty(e.transcript)))},
            by_guess \in {GuessChoice(idx, OrEmpty(e.transcript))},
            by_title \in {LookupChoice(idx, canonicalize_name(OrEmpty(e.title)),
                                       "title_match")} } : TRUE

\* the three steps of the loop body for an episode that is not linked yet
ChooseModel(idx, mvs, e) ==
    CHOOSE chosen \in
        { IF by_guess # NoChoice THEN by_guess
          ELSE IF by_title # NoChoice THEN by_title
          ELSE SubstringMatch(mvs, ToLower(OrEmpty(e.title) \o <<"\n">>
                                            \o OrEmpty(e.transcript))) :
            by_guess \in {GuessChoice(idx, OrEmpty(e.transcript))},
            by_title \in {LookupChoice(idx, canonicalize_name(OrEmpty(e.title)),
                                       "title_match")} } : TRUE

\* the counters with an ambiguous episode counted as one without a match
BumpAmbiguousAsNoMatch(c, field) ==
    [c EXCEPT ![IF field = "ambiguous" THEN "no_match" ELSE field] = @ + 1]

Bump(c, field) == [c EXCEPT ![field] = @ + 1]

(***************************************************************************)
(* SpecLink: one run of auto_link_models_from_transcripts over a database  *)
(* of models and episodes.                                                 *)
(***************************************************************************)
MaxEpisodes == 1

Inversion == Chars("Inversion")
InversionThinking == Chars("Inversion Thinking")
OccamsRazor == Chars("Occam's Razor")
HanlonsRazor == Chars("Hanlon's Razor")
RedQueen == Chars("Red Queen")

\* the tables of mental_models the runs start from: none, one without a usable
\* variant, and tables whose variants differ in length by 0, 1, 4, 5 and 9
LinkTables ==
    { <<>>, <<Chars("Abc")>>, <<Chars("Abc"), RedQueen>>,
      <<Chars(" "), Chars("The Map vs. Territory (x)")>>, <<Chars("The (abc) x"), <<>>>>,
      <<Inversion, RedQueen>>, <<OccamsRazor, HanlonsRazor>>,
      <<Inversion, OccamsRazor>>, <<Inversion, HanlonsRazor>>,
      <<HanlonsRazor, Inversion>>, <<Inversion, InversionThinking>>,
      <<InversionThinking, HanlonsRazor, OccamsRazor>>,
      <<Inversion, OccamsRazor, InversionThinking>> }

RazorsTranscript ==
    Chars("inversion thinking, hanlon's razor, occam's razor and red queen")

\* rows of episodes without their id
EpisodePool ==
    { [title |-> Chars("Episode 12"), transcript |-> RazorsTranscript,
       mental_model_id |-> NullId],
      [title |-> Chars("Episode 12"), transcript |-> RazorsTranscript,
       mental_model_id |-> 1],
      [title |-> Chars("Abc"), transcript |-> Chars("nothing but red queen"),
       mental_model_id |-> NullId],
      [title |-> Chars("Episode 14"),
       transcript |-> Chars("Today we're exploring the concept of Inversion. Not Red Queen."),
       mental_model_id |-> NullId],
      [title |-> None, transcript |-> Chars(" \n"), mental_model_id |-> NullId] }

EpisodeTables == UNION { [1..n -> EpisodePool] : n \in 0..MaxEpisodes }

InitLink ==
    /\ pc = "start"
    /\ fn = "names"
    /\ text = None
    /\ once = None
    /\ twice = None
    /\ guessed = None
    /\ canon_guess = None
    /\ \E t \in LinkTables : models = RowsOf(t)
    /\ model_index = <<>>
    /\ row = 1
    /\ title = None
    /\ canon_title = None
    /\ match = NoMatch
    /\ model_variants = <<>>
    /\ \E t \in EpisodeTables :
         /\ episodes = [k \in 1..Len(t) |->
                          [id |-> k, title |-> t[k].title, transcript |-> t[k].transcript,
                           mental_model_id |-> t[k].mental_model_id]]
         /\ mental_model_id = [k \in 1..Len(t) |-> t[k].mental_model_id]
         /\ titles = [k \in 1..Len(t) |-> t[k].title]
         /\ transcripts = [k \in 1..Len(t) |-> t[k].transcript]
    /\ write_fails = {}
    /\ sheet = <<>>
    /\ schema = <<>>
    /\ committed = FALSE
    /\ dry_run \in BOOLEAN
    /\ ep = 1
    /\ counts = NoCounts
    /\ examples = <<>>
    /\ output = <<>>
    /\ NoMore

\* from the start to the loop over the episodes, or to an early return
LinkStart ==
    /\ pc = "start"
    /\ \E index \in {build_mental_model_index("names", models)},
          variants \in {VariantsOfRows(models)} :
           IF models = <<>>
           THEN /\ output' = output \o <<"using column", "no models found">>
                /\ pc' = "done"
                /\ UNCHANGED <<model_index, model_variants>>
           ELSE IF Len(variants) = 0
           THEN /\ output' = output \o <<"using column", "no usable variants">>
                /\ model_index' = index
                /\ pc' = "done"
                /\ UNCHANGED model_variants
           ELSE /\ output' = Append(output, "using column")
                /\ model_index' = index
                /\ model_variants' = variants
                /\ pc' = "loop"
    /\ UNCHANGED <<fn, canonVars, models, row, title, canon_title, match, episodes,
                   mental_model_id, titles, transcripts, write_fails, sheet, schema,
                   committed, dry_run, ep, counts, examples, moreVars>>

\* the pass with the UPDATE outside "if not dry_run:"
LinkEpisodeIgnoresDryRun ==
    /\ pc = "loop"
    /\ ep <= Len(episodes)
    /\ \E episode \in {episodes[ep]} :
        \E chosen \in {ChooseModel(model_index, model_variants, episode)} :
           IF Strip(OrEmpty(episode.transcript)) = <<>>
           THEN UNCHANGED <<mental_model_id, counts, examples>>
           ELSE IF episode.mental_model_id # NullId
           THEN /\ counts' = Bump(counts, "already_linked")
                /\ UNCHANGED <<mental_model_id, examples>>
           ELSE IF chosen.reason \in {"no_match", "ambiguous"}
           THEN /\ counts' = Bump(counts, chosen.reason)
                /\ UNCHANGED <<mental_model_id, examples>>
           ELSE /\ mental_model_id' = [mental_model_id EXCEPT ![ep] = chosen.model_id]
                /\ counts' = Bump(counts, "linked")
                /\ examples' =
                     IF Len(examples) < MaxExamples
                     THEN Append(examples, <<episode.id, OrEmpty(episode.title), chosen.model_name,
                                             chosen.reason>>)
                     ELSE examples
    /\ ep' = ep + 1
    /\ UNCHANGED <<pc, fn, canonVars, matchVars, model_variants, episodes, titles,
                   transcripts, write_fails, sheet, schema, committed, dry_run, output,
                   moreVars>>

\* the pass without the test of the link the episode has
LinkEpisodeRelinks ==
    /\ pc = "loop"
    /\ ep <= Len(episodes)
    /\ \E episode \in {episodes[ep]} :
        \E chosen \in {ChooseModel(model_index, model_variants, episode)} :
           IF Strip(OrEmpty(episode.transcript)) = <<>>
           THEN UNCHANGED <<mental_model_id, counts, examples>>
           ELSE IF chosen.reason \in {"no_match", "ambiguous"}
           THEN /\ counts' = Bump(counts, chosen.reason)
                /\ UNCHANGED <<mental_model_id, examples>>
           ELSE /\ mental_model_id' =
                     IF dry_run THEN mental_model_id
                     ELSE [mental_model_id EXCEPT ![ep] = chosen.model_id]
                /\ counts' = Bump(counts, "linked")
                /\ examples' =
                     IF Len(examples) < MaxExamples
                     THEN Append(examples, <<episode.id, OrEmpty(episode.title), chosen.model_name,
                                             chosen.reason>>)
                     ELSE examples
    /\ ep' = ep + 1
    /\ UNCHANGED <<pc, fn, canonVars, matchVars, model_variants, episodes, titles,
                   transcripts, write_fails, sheet, schema, committed, dry_run, output,
                   moreVars>>

\* one pass of "for ep in episodes"
LinkEpisode ==
    /\ pc = "loop"
    /\ ep <= Len(episodes)
    /\ \E episode \in {episodes[ep]} :
        \E chosen \in {ChooseModel(model_index, model_variants, episode)} :
           IF Strip(OrEmpty(episode.transcript)) = <<>>
           THEN UNCHANGED <<mental_model_id, counts, examples>>
           ELSE IF episode.mental_model_id # NullId
           THEN /\ counts' = Bump(counts, "already_linked")
                /\ UNCHANGED <<mental_model_id, examples>>
           ELSE IF chosen.reason \in {"no_match", "ambiguous"}
           THEN /\ counts' = Bump(counts, chosen.reason)
                /\ UNCHANGED <<mental_model_id, examples>>
           ELSE /\ mental_model_id' =
                     IF dry_run THEN mental_model_id
                     ELSE [mental_model_id EXCEPT ![ep] = chosen.model_id]
                /\ counts' = Bump(counts, "linked")
                /\ examples' =
                     IF Len(examples) < MaxExamples
                     THEN Append(examples, <<episode.id, OrEmpty(episode.title), chosen.model_name,
                                             chosen.reason>>)
                     ELSE examples
    /\ ep' = ep + 1
    /\ UNCHANGED <<pc, fn, canonVars, matchVars, model_variants, episodes, titles,
                   transcripts, write_fails, sheet, schema, committed, dry_run, output,
                   moreVars>>

\* after the loop: the commit, and the summary
LinkFinish ==
    /\ pc = "loop"
    /\ ep > Len(episodes)
    /\ committed' = ~dry_run
    /\ output' = Append(output, "summary")
    /\ pc' = "done"
    /\ UNCHANGED <<fn, canonVars, matchVars, model_variants, episodes, mental_model_id,
                   titles, transcripts, write_fails, sheet, schema, dry_run, ep, counts,
                   examples, moreVars>>

NextLink == LinkStart \/ LinkEpisode \/ LinkFinish

SpecLink == InitLink /\ [][NextLink]_vars

(***************************************************************************)
(* Properties of SpecMatch.                                                *)
(***************************************************************************)
Matched == pc = "matched"
Keys == {model_index[k].canon_name : k \in 1..Len(model_index)}
KeyOf(k) == Canon(fn, models[k].name)
SameScore(x, y) == x[1] * y[2] = y[1] * x[2]
Exact(mm) == [model |-> mm, type |-> "exact", score |-> <<1, 1>>]

\* C2: a query equal to a key of the index is matched by get_best_model_match to
\* the concept stored under that key, with class "exact" and confidence 1.0,
\* whatever the other keys and their order.
C2_ExactDominates ==
    (Matched /\ fn = "mm_tool" /\ canon_title \in Keys)
        => match = Exact(IndexGet(model_index, canon_title))

\* the exact key comes after a key that contains the query
C2_Witness ==
    /\ Matched /\ fn = "mm_tool"
    /\ Len(model_index) = 2
    /\ model_index[2].canon_name = canon_title
    /\ Contains(model_index[1].canon_name, canon_title)
    /\ match.type = "exact" /\ match.model.id = 2

\* title + "\n" + transcript, lowered, of an episode
BlobOf(e) == ToLower(OrEmpty(e.title) \o <<"\n">> \o OrEmpty(e.transcript))

\* the length of the longest variant of row r that occurs in blob, 0 without one
MatchedLen(r, blob) ==
    LET lens == {Len(v) : v \in {w \in UsableVariants(r) : Contains(blob, w)}}
    IN  IF lens = {} THEN 0 ELSE MaxOf(lens)

\* the episode at the loop's position comes to the variant-substring step
ReachesVariantStep ==
    /\ pc = "loop" /\ ep <= Len(episodes)
    /\ Strip(OrEmpty(episodes[ep].transcript)) # <<>>
    /\ episodes[ep].mental_model_id = NullId
    /\ GuessChoice(model_index, OrEmpty(episodes[ep].transcript)) = NoChoice
    /\ IndexGet(model_index, canonicalize_name(OrEmpty(episodes[ep].title))) = NoModel

\* C3: in the variant-substring step with variants of two or more concepts in the
\* blob, the concept of the longest variant is linked if and only if that length
\* is at least 5 more than the second concept's; otherwise the episode is counted
\* ambiguous and mental_model_id is not written.
C3_MarginDecides ==
    [][ \A blob \in {IF ep <= Len(episodes) THEN BlobOf(episodes[ep]) ELSE <<>>} :
        \A lens \in {<<>> \o [k \in 1..Len(models) |-> MatchedLen(models[k], blob)]} :
          ( /\ ReachesVariantStep
            /\ ep' = ep + 1
            /\ Cardinality({k \in 1..Len(models) : lens[k] > 0}) >= 2 )
          => LET top == CHOOSE k \in 1..Len(models) : \A j \in 1..Len(models) : lens[j] <= lens[k]
                 second == MaxOf({lens[j] : j \in (1..Len(models)) \ {top}})
             IN  IF lens[top] >= second + 5
                 THEN /\ counts' = [counts EXCEPT !.linked = @ + 1]
                      /\ mental_model_id' =
                           IF dry_run THEN mental_model_id
                           ELSE [mental_model_id EXCEPT ![ep] = models[top].id]
                 ELSE /\ counts' = [counts EXCEPT !.ambiguous = @ + 1]
                      /\ mental_model_id' = mental_model_id
      ]_vars

\* an episode has been linked to the concept whose variant is exactly 5 longer
C3_Witness ==
    /\ pc = "loop" /\ ep = 2 /\ ~dry_run
    /\ counts.linked = 1
    /\ Len(examples) = 1 /\ examples[1][4] = "substring_match"
    /\ \E j, k \in 1..Len(models) :
         /\ MatchedLen(models[j], BlobOf(episodes[1])) > 0
         /\ MatchedLen(models[k], BlobOf(episodes[1])) =
              MatchedLen(models[j], BlobOf(episodes[1])) + 5
         /\ mental_model_id[1] = models[k].id

\* an episode with variants of equal length of two concepts has been counted
\* ambiguous and left without a link
C3_WitnessAmbiguous ==
    /\ pc = "loop" /\ ep = 2
    /\ counts.ambiguous = 1
    /\ mental_model_id[1] = NullId
    /\ \E j, k \in 1..Len(models) :
         /\ j # k
         /\ MatchedLen(models[j], BlobOf(episodes[1])) > 0
         /\ MatchedLen(models[k], BlobOf(episodes[1])) =
              MatchedLen(models[j], BlobOf(episodes[1]))

\* C4: when two candidates of the phase that decides reach the same similarity,
\* get_best_model_match returns the one with the longer canonical key.
C4_LongerKeyOnTie ==
    (Matched /\ fn = "mm_tool" /\ match.type \in {"substring", "fuzzy"})
        => \A k \in 1..Len(model_index) :
             LET key == model_index[k].canon_name
             IN  ( /\ SameScore(Ratio(canon_title, key), match.score)
                   /\ match.type = "substring" => EitherContains(canon_title, key) )
                    => Len(key) <= Len(match.model.canon_name)

\* C5: class "substring" is returned only for a key that contains or is contained
\* in the query with similarity >= 0.70, class "fuzzy" only with similarity >=
\* 0.80, and every other case without an exact key returns (None, None, 0.0).
C5_Thresholds ==
    (Matched /\ fn = "mm_tool") =>
        LET sim(key) == Ratio(canon_title, key)
            got == match.model.canon_name
        IN  /\ match.type \in {"exact", "substring", "fuzzy", "None"}
            /\ match.type = "exact" => canon_title \in Keys
            /\ match.type = "substring" =>
                 /\ got \in Keys
                 /\ EitherContains(canon_title, got)
                 /\ Ge(sim(got), <<7, 10>>)
                 /\ match.score = sim(got)
            /\ match.type = "fuzzy" =>
                 /\ got \in Keys
                 /\ Ge(sim(got), <<8, 10>>)
                 /\ match.score = sim(got)
            /\ match.type = "None" => match = NoMatch
            /\ ( /\ canon_title \notin Keys
                 /\ \A key \in Keys :
                      /\ ~Ge(sim(key), <<8, 10>>)
                      /\ EitherContains(canon_title, key) => ~Ge(sim(key), <<7, 10>>) )
                 => match = NoMatch

\* a key contained in or containing the query stays below 0.70 and nothing is
\* returned
C5_Witness ==
    /\ Matched /\ fn = "mm_tool"
    /\ canon_title # <<>>
    /\ \E key \in Keys :
         /\ EitherContains(canon_title, key)
         /\ ~Ge(Ratio(canon_title, key), <<7, 10>>)
    /\ match = NoMatch

\* a fuzzy match at the threshold
C5_WitnessFuzzy ==
    /\ Matched /\ fn = "mm_tool"
    /\ match.type = "fuzzy"
    /\ SameScore(match.score, <<8, 10>>)

\* C6: a query whose canonical key is empty is matched to no concept, by
\* get_best_model_match and by the lookup model_index.get alike, whatever the index.
C6_EmptyKeyNeverMatches ==
    (Matched /\ canon_title = <<>>) => match = NoMatch

\* an empty key looked up in an index that has entries
C6_Witness ==
    /\ Matched
    /\ canon_title = <<>>
    /\ title # <<>>
    /\ Len(model_index) = MaxModels
    /\ match = NoMatch

\* C7: the index build_mental_model_index returns has no empty key, every concept
\* with a non-empty canonical key has its key in the index, and a key maps to the
\* last concept that has it.
C7_IndexLastWins ==
    (pc = "indexed") =>
        LET key == <<>> \o [m \in 1..Len(models) |-> KeyOf(m)]
            last(m) == CHOOSE l \in 1..Len(models) :
                          /\ key[l] = key[m]
                          /\ \A o \in 1..Len(models) : key[o] = key[m] => o <= l
        IN  /\ <<>> \notin Keys
            /\ \A j, k \in 1..Len(model_index) :
                 model_index[j].canon_name = model_index[k].canon_name => j = k
            /\ \A k \in 1..Len(model_index) :
                 \E m \in 1..Len(models) :
                    model_index[k] = [id |-> models[m].id, name |-> models[m].name,
                                      canon_name |-> key[m]]
            /\ \A m \in 1..Len(models) :
                 key[m] # <<>> =>
                    /\ key[m] \in Keys
                    /\ IndexGet(model_index, key[m]).id = models[last(m)].id

\* two concepts with one canonical key: the index holds the second
C7_Witness ==
    /\ pc = "indexed"
    /\ Len(models) = 2
    /\ Len(model_index) = 1
    /\ model_index[1].id = models[2].id
    /\ KeyOf(1) = KeyOf(2)

\* C8 as stated: looking up a concept's own display name gives an exact match on
\* that concept unless another concept has the same canonical key.
C8_RoundTrip ==
    Matched =>
        LET key == <<>> \o [m \in 1..Len(models) |-> KeyOf(m)]
        IN  \A k \in 1..Len(models) :
              ( /\ models[k].name = title
                /\ title # <<>>
                /\ \A j \in 1..Len(models) : j # k => key[j] # key[k] )
                  => match = Exact([id |-> models[k].id, name |-> models[k].name,
                                    canon_name |-> key[k]])

\* C8 amended: the same for the concepts whose canonical key is not empty.
C8_RoundTripNonEmptyKey ==
    Matched =>
        LET key == <<>> \o [m \in 1..Len(models) |-> KeyOf(m)]
        IN  \A k \in 1..Len(models) :
              ( /\ models[k].name = title
                /\ key[k] # <<>>
                /\ \A j \in 1..Len(models) : j # k => key[j] # key[k] )
                  => match = Exact([id |-> models[k].id, name |-> models[k].name,
                                    canon_name |-> key[k]])

\* the second of two concepts with different keys is looked up by its own name
C8_Witness ==
    /\ Matched
    /\ Len(models) = 2
    /\ models[2].name = title
    /\ KeyOf(2) # <<>>
    /\ KeyOf(1) # KeyOf(2)
    /\ KeyOf(2) # title
    /\ match.type = "exact" /\ match.model.id = 2

\* C9: with the concepts Occam's Razor and Hanlon's Razor the key of concept 1 is
\* "occams razor", and the title "occams razor: the simplicity principle" gets
\* that key and is matched exact to concept 1.
C9_OccamsRazorExact ==
    ( /\ Matched /\ fn = "mm_tool"
      /\ Len(models) = 2
      /\ models[1].name = Chars("Occam's Razor")
      /\ models[2].name = Chars("Hanlon's Razor")
      /\ title = Chars("occams razor: the simplicity principle") )
        => /\ KeyOf(1) = Chars("occams razor")
           /\ canon_title = KeyOf(1)
           /\ match.type = "exact"
           /\ match.model.id = 1

\* C10: for a transcript that opens "Today, we're <verb> the concept of <Concept>."
\* the guess is <Concept> without "the concept of", and its canonical key is the
\* key of <Concept>.
C10_GuessDropsConceptOf ==
    \A v \in IntroVerbs, n \in Concepts :
        StartsAt(text, 1, Chars("Today, we're ") \o v \o <<" ">> \o ConceptOf \o n \o <<".">>)
            => /\ pc \in {"guessed", "keyed"} => guessed = n
               /\ pc = "keyed" => canon_guess = canonicalize_name(n)

\* C11: a title with a colon, canonicalized for the lookup of import_rss and of the
\* title step of auto-link, gets the key of the text before its first colon.
C11_TitleKeyIsBeforeColon ==
    (Matched /\ fn = "names" /\ Contains(title, <<":">>))
        => canon_title = canonicalize_name(BeforeFirst(title, ":"))

(***************************************************************************)
(* Properties of SpecLink.                                                 *)
(***************************************************************************)
\* the pass of the loop over the episode at ep, when that episode has a transcript
\* and no link yet
TriesStrategies ==
    /\ pc = "loop" /\ ep <= Len(episodes) /\ ep' = ep + 1
    /\ Strip(OrEmpty(episodes[ep].transcript)) # <<>>
    /\ episodes[ep].mental_model_id = NullId

\* the pass links the episode at ep to model mm and gives the reason
LinksTo(mm, reason) ==
    /\ counts' = [counts EXCEPT !.linked = @ + 1]
    /\ mental_model_id' = IF dry_run THEN mental_model_id
                          ELSE [mental_model_id EXCEPT ![ep] = mm.id]
    /\ examples' = Append(examples, <<episodes[ep].id, OrEmpty(episodes[ep].title),
                                      mm.name, reason>>)

\* C12: an unlinked episode whose guess key is in the index is linked to that
\* concept; otherwise one whose title key is in the index is linked to that concept;
\* whatever the variant-substring step would report.
C12_FirstStrategyWins ==
    [][ TriesStrategies =>
          \A by_guess \in
                {IF g = None THEN NoModel ELSE IndexGet(model_index, canonicalize_name(g)) :
                    g \in {guess_model_name_from_text(OrEmpty(episodes[ep].transcript))}} :
            \A by_title \in
                {IndexGet(model_index, canonicalize_name(OrEmpty(episodes[ep].title)))} :
              /\ by_guess # NoModel => LinksTo(by_guess, "transcript_guess")
              /\ (by_guess = NoModel /\ by_title # NoModel) => LinksTo(by_title, "title_match")
      ]_vars

\* an episode linked by its guess although the variants in its blob are ambiguous
C12_Witness ==
    /\ pc = "loop" /\ ep = 2 /\ ~dry_run
    /\ Len(examples) = 1 /\ examples[1][4] = "transcript_guess"
    /\ mental_model_id[1] # NullId
    /\ SubstringMatch(model_variants, BlobOf(episodes[1])).reason = "ambiguous"

\* an episode linked by its title although a variant of another concept is in its blob
C12_WitnessTitle ==
    /\ pc = "loop" /\ ep = 2 /\ ~dry_run
    /\ Len(examples) = 1 /\ examples[1][4] = "title_match"
    /\ SubstringMatch(model_variants, BlobOf(episodes[1])).reason = "substring_match"
    /\ SubstringMatch(model_variants, BlobOf(episodes[1])).model_id # mental_model_id[1]

\* the episodes the loop has passed that have a transcript
Scanned == { k \in 1..(ep - 1) : Strip(OrEmpty(episodes[k].transcript)) # <<>> }

\* of these, the ones without a link at the start that no exact key decides
ToVariantStep ==
    { k \in Scanned :
        /\ episodes[k].mental_model_id = NullId
        /\ \A g \in {guess_model_name_from_text(OrEmpty(episodes[k].transcript))} :
              g = None \/ IndexGet(model_index, canonicalize_name(g)) = NoModel
        /\ IndexGet(model_index, canonicalize_name(OrEmpty(episodes[k].title))) = NoModel }

\* C13: once the loop is reached, every episode with a transcript that the loop has
\* passed is in exactly one of the four counts (the four add up to the number of such
\* episodes, at the summary too), and an ambiguous episode is counted as ambiguous,
\* never as no-match.
C13_CountsPartition ==
    (pc = "loop" \/ (pc = "done" /\ model_variants # <<>>)) =>
        /\ counts.already_linked + counts.linked + counts.no_match + counts.ambiguous
              = Cardinality(Scanned)
        /\ counts.already_linked
              = Cardinality({ k \in Scanned : episodes[k].mental_model_id # NullId })
        /\ counts.ambiguous
              = Cardinality({ k \in ToVariantStep :
                    SubstringMatch(model_variants, BlobOf(episodes[k])).reason = "ambiguous" })
        /\ counts.no_match
              = Cardinality({ k \in ToVariantStep :
                    SubstringMatch(model_variants, BlobOf(episodes[k])).reason = "no_match" })
        /\ (pc = "done") => (ep = Len(episodes) + 1 /\ output[Len(output)] = "summary")

\* a summary after an ambiguous episode
C13_Witness ==
    /\ pc = "done" /\ output[Len(output)] = "summary"
    /\ counts = [NoCounts EXCEPT !.ambiguous = 1]

(***************************************************************************)
(* mmtool/linking.py: repair_model_links.                                  *)
(***************************************************************************)
title_looks_bad(t) ==
    LET stripped == Strip(t)
        d == SkipSet(stripped, 1, Digit)
        n == Len(stripped)
    IN  \/ t = <<>>
        \/ StartsAt(ToLower(stripped), 1, Chars("episode from "))
        \* re.fullmatch(r"\d+(\.\ds?)?", t)
        \/ /\ d > 1
           /\ \/ d = n + 1
              \/ /\ d + 1 <= n /\ stripped[d] = "." /\ stripped[d + 1] \in Digit
                 /\ (d + 1 = n \/ (d + 2 = n /\ stripped[n] = "s"))
        \/ Len(t) <= 4

KNOWN_MODELS ==
    { Chars("second order thinking"), Chars("inversion"), Chars("first principles"),
      Chars("map is not the territory"), Chars("thought experiment"),
      Chars("occam's razor"), Chars("hanlon's razor"), Chars("hickam's dictum"),
      Chars("hindsight bias"), Chars("confirmation bias") }

\* $ : the end of the string, or the place before a newline that ends the string
AtEnd(l, e) == e = Len(l) + 1 \/ (e = Len(l) /\ l[e] = "\n")

\* a lazy group ([^...]+?) that starts at gs: the first place after gs where the rest
\* of the pattern matches, rest[e] giving where the rest ends from e; 0 when there is
\* none
LazyEnd(l, gs, excluded, rest) ==
    LET ends == { e \in (gs + 1)..(Len(l) + 1) :
                    /\ \A k \in gs..(e - 1) : l[k] \notin excluded
                    /\ rest[e] # 0 }
    IN  IF gs < 1 \/ gs > Len(l) \/ ends = {} THEN 0 ELSE Min(ends)

\* a match: where the group starts, where it ends, where the match ends
NoGroup == <<0, 0, 0>>

\* patterns 1 and 2, matched at the colon at i: :\s*([^:.,]+?)(?:stops|$), the white
\* space greedy, giving back what the group needs
ColonPattern(l, i, stops) ==
    LET Rest == [e \in 1..(Len(l) + 1) |-> IF AtEnd(l, e) THEN e ELSE AnyLit(l, e, stops)]
        starts == { gs \in (i + 1)..SkipSet(l, i + 1, Space) :
                      LazyEnd(l, gs, {":", ".", ","}, Rest) # 0 }
    IN  IF l[i] # ":" \/ starts = {} THEN NoGroup
        ELSE CHOOSE m \in UNION
               { { <<gs, e, Rest[e]>> : e \in {LazyEnd(l, gs, {":", ".", ","}, Rest)} } :
                   gs \in {CHOOSE g \in starts : \A h \in starts : h <= g} } : TRUE

\* \s*,?\s*also known as\s+[^,]+ from e: where it ends, or 0
AkaTail(l, e) ==
    LET a == SkipSet(l, e, Space)
        b == IF a <= Len(l) /\ l[a] = "," THEN a + 1 ELSE a
        c == Lit(l, SkipSet(l, b, Space), Chars("also known as"))
        d == WsPlus(l, c)
    IN  IF d # 0 /\ ((d <= Len(l) /\ l[d] # ",") \/ d - c >= 2)
        THEN Min({j \in c..(Len(l) + 1) : j > Len(l) \/ l[j] = ","})
        ELSE 0

\* (?:\s*\([^)]+\))?$ from e: where it ends, or 0
ParenTail(l, e) ==
    LET p == SkipSet(l, e, Space)
        c == Min({j \in (p + 2)..(Len(l) + 2) : j > Len(l) \/ l[j] = ")"})
    IN  IF p <= Len(l) /\ l[p] = "(" /\ c <= Len(l) /\ AtEnd(l, c + 1) THEN c + 1
        ELSE IF AtEnd(l, e) THEN e
        ELSE 0

\* pattern n of extract_model_candidates matched at i; l is the title lowered, as
\* re.IGNORECASE compares
TitlePattern(n, l, i) ==
    LET Aka == [e \in 1..(Len(l) + 1) |-> AkaTail(l, e)]
        Paren == [e \in 1..(Len(l) + 1) |-> ParenTail(l, e)]
    IN  CASE n = 1 -> ColonPattern(l, i, {<<",">>, <<".">>, Chars(" also known as")})
          [] n = 2 -> ColonPattern(l, i, {<<".">>})
          [] n = 3 -> CHOOSE m \in
                        { IF e = 0 THEN NoGroup ELSE <<i, e, AkaTail(l, e)>> :
                            e \in {LazyEnd(l, i, {","}, Aka)} } : TRUE
          [] n = 4 -> CHOOSE m \in
                        { IF e = 0 THEN NoGroup ELSE <<i, e, ParenTail(l, e)>> :
                            e \in {LazyEnd(l, i, {"("}, Paren)} } : TRUE

RECURSIVE TitleGroups(_, _, _, _)
\* [match.group(1).strip() for match in re.finditer(pattern, title, re.IGNORECASE)]
\* for pattern n, from position pos on
TitleGroups(n, t, l, pos) ==
    CHOOSE groups \in
      { IF starts = {} THEN <<>>
        ELSE CHOOSE rest \in
               { <<Strip(SubSeq(t, m[1], m[2] - 1))>> \o TitleGroups(n, t, l, m[3]) :
                   m \in {TitlePattern(n, l, Min(starts))} } : TRUE :
          starts \in {{i \in pos..Len(l) : TitlePattern(n, l, i) # NoGroup}} } : TRUE

\* also known as\s+([^,.;]+) at i: the group, and where the match ends
AkaPattern(l, i) ==
    LET c == Lit(l, i, Chars("also known as"))
        d == WsPlus(l, c)
        gs == IF d = 0 THEN 0
              ELSE IF d <= Len(l) /\ l[d] \notin {",", ".", ";"} THEN d
              ELSE IF d - c >= 2 THEN d - 1
              ELSE 0
        ge == Min({j \in (gs + 1)..(Len(l) + 1) : j > Len(l) \/ l[j] \in {",", ".", ";"}})
    IN  IF gs = 0 THEN NoGroup ELSE <<gs, ge, ge>>

RECURSIVE AkaGroups(_, _, _)
\* the groups of re.finditer(r"also known as\s+([^,.;]+)", transcript, re.IGNORECASE)
AkaGroups(t, l, pos) ==
    CHOOSE groups \in
      { IF starts = {} THEN <<>>
        ELSE CHOOSE rest \in
               { <<Strip(SubSeq(t, m[1], m[2] - 1))>> \o AkaGroups(t, l, m[3]) :
                   m \in {AkaPattern(l, Min(starts))} } : TRUE :
          starts \in {{i \in pos..Len(l) : AkaPattern(l, i) # NoGroup}} } : TRUE

RECURSIVE AddCandidates(_, _, _, _, _)
\* the candidates after the names from the n-th on: a name longer than min_len whose
\* key is not empty and not among the candidates yet is appended with its source
AddCandidates(candidates, source, names, n, min_len) ==
    IF n > Len(names) THEN candidates
    ELSE CHOOSE all \in
           { AddCandidates(
                 IF /\ Len(names[n]) > min_len
                    /\ canon # <<>>
                    /\ \A k \in 1..Len(candidates) : candidates[k][2] # canon
                 THEN Append(candidates, <<source, canon>>)
                 ELSE candidates,
                 source, names, n + 1, min_len) :
               canon \in {canonicalize_name(names[n])} } : TRUE

\* the known names that are in the title or in the transcript, lowered
KnownFound(t, transcript) ==
    { known \in KNOWN_MODELS :
        Contains(ToLower(t), known) \/ Contains(ToLower(transcript), known) }

\* the orders in which a loop over a set of str can meet the members of S
Orderings(S) ==
    { order \in [1..Cardinality(S) -> S] :
        \A j, k \in 1..Cardinality(S) : order[j] = order[k] => j = k }

\* extract_model_candidates; known is KnownFound in the order the loop over
\* KNOWN_MODELS meets them
extract_model_candidates(t, transcript, known) ==
    CHOOSE candidates \in UNION
      { { AddCandidates(
            AddCandidates(
              AddCandidates(
                AddCandidates(
                  AddCandidates(
                    AddCandidates(
                      AddCandidates(<<>>, "pattern_1", TitleGroups(1, t, l, 1), 1, 3),
                                    "pattern_2", TitleGroups(2, t, l, 1), 1, 3),
                                  "pattern_3", TitleGroups(3, t, l, 1), 1, 3),
                                "pattern_4", TitleGroups(4, t, l, 1), 1, 3),
                              "transcript_aka", AkaGroups(transcript, lowered, 1), 1, -1),
                            "full_title", <<t>>, 1, -1),
                          "known_models", known, 1, -1) :
            lowered \in {ToLower(transcript)} } :
          l \in {ToLower(t)} } : TRUE

\* set(canon.split())
WordsOf(canon) ==
    { SubSeq(canon, word[1], word[2]) :
        word \in { w \in (1..Len(canon)) \X (1..Len(canon)) :
                     /\ w[1] <= w[2]
                     /\ \A k \in w[1]..w[2] : canon[k] \notin Space
                     /\ (w[1] = 1 \/ canon[w[1] - 1] \in Space)
                     /\ (w[2] = Len(canon) \/ canon[w[2] + 1] \in Space) } }

\* the score of the word overlap, a fraction: max(jaccard, overlap) with the boost
\* of the source
FuzzyScore(source, canon_words, model_words) ==
    LET intersection == Cardinality(canon_words \cap model_words)
        union == Cardinality(canon_words \cup model_words)
        least == IF Cardinality(canon_words) < Cardinality(model_words)
                 THEN Cardinality(canon_words) ELSE Cardinality(model_words)
        jaccard == <<intersection, union>>
        overlap == <<intersection, least>>
        score == IF Gt(jaccard, overlap) THEN jaccard ELSE overlap
    IN  IF StartsAt(Chars(source), 1, Chars("pattern_")) THEN <<score[1] * 11, score[2] * 10>>
        ELSE IF source = "transcript_aka"
        THEN \* score *= 1.2 in binary floating point: for sets of up to eight words
             \* the product is the fraction, but for 0.2, 0.4, 0.8 and 0.9, where it is
             \* the float just below
             IF score[1] * 6 = score[2] THEN <<1999, 10000>>
             ELSE IF score[1] * 3 = score[2] THEN <<3999, 10000>>
             ELSE IF score[1] * 3 = score[2] * 2 THEN <<7999, 10000>>
             ELSE IF score[1] * 4 = score[2] * 3 THEN <<8999, 10000>>
             ELSE <<score[1] * 12, score[2] * 10>>
        ELSE score

\* what the loops over the candidates and the index keep
NoBest == [chosen_model |-> NoModel, best_match |-> NoModel, best_score |-> <<0, 1>>,
           exact |-> FALSE]

\* the body of "for model_canon, model_data in model_index.items()"
ScoreModel(best, source, canon, model_data) ==
    LET model_canon == model_data.canon_name
        spaced(x) == <<" ">> \o x \o <<" ">>
        partial == IF \/ Contains(spaced(model_canon), spaced(canon))
                      \/ Contains(spaced(canon), spaced(model_canon))
                   THEN <<9, 10>> ELSE <<8, 10>>
        after_partial ==
            IF /\ Contains(model_canon, canon) \/ Contains(canon, model_canon)
               /\ Gt(partial, best.best_score)
            THEN [best EXCEPT !.best_score = partial, !.best_match = model_data]
            ELSE best
    IN  IF canon = model_canon
        THEN [best EXCEPT !.chosen_model = model_data, !.best_score = <<1, 1>>,
                          !.exact = TRUE]
        ELSE CHOOSE scored \in
               { IF /\ WordsOf(canon) # {} /\ WordsOf(model_canon) # {}
                    /\ Gt(score, <<4, 10>>) /\ Gt(score, after_partial.best_score)
                 THEN [after_partial EXCEPT !.best_score = score,
                                            !.best_match = model_data]
                 ELSE after_partial :
                   score \in {FuzzyScore(source, WordsOf(canon), WordsOf(model_canon))} } :
               TRUE

RECURSIVE ScoreModels(_, _, _, _, _)
\* the loop over the index from its k-th entry, left at an exact match
ScoreModels(best, source, canon, index, k) ==
    IF k > Len(index) \/ best.exact THEN best
    ELSE CHOOSE scored \in
           { ScoreModels(next, source, canon, index, k + 1) :
               next \in {ScoreModel(best, source, canon, index[k])} } : TRUE

RECURSIVE ScoreCandidates(_, _, _, _)
\* the loop over the candidates from the c-th, left when the score reaches 0.9
ScoreCandidates(best, candidates, index, c) ==
    IF c > Len(candidates) THEN best
    ELSE CHOOSE scored \in
           { IF Ge(next.best_score, <<9, 10>>)
             THEN IF next.chosen_model = NoModel /\ next.best_match # NoModel
                  THEN [next EXCEPT !.chosen_model = next.best_match]
                  ELSE next
             ELSE ScoreCandidates(next, candidates, index, c + 1) :
               next \in {ScoreModels([best EXCEPT !.exact = FALSE], candidates[c][1],
                                     candidates[c][2], index, 1)} } : TRUE

\* chosen_model after the loops and the use of the best match above 0.5
ChosenModel(candidates, index) ==
    CHOOSE chosen_model \in
      { IF /\ scored.chosen_model = NoModel /\ scored.best_match # NoModel
           /\ Gt(scored.best_score, <<5, 10>>)
        THEN scored.best_match
        ELSE scored.chosen_model :
          scored \in {ScoreCandidates(NoBest, candidates, index, 1)} } : TRUE

(***************************************************************************)
(* Runs of repair_model_links over a small database.                       *)
(***************************************************************************)
NoRepairCounts == [fixed |-> 0, skipped |-> 0]

RepairTables ==
    { <<>>, <<Inversion, OccamsRazor, HanlonsRazor>> }

RepairPool ==
    { [title |-> Chars("Episode 12: Inversion, also known as flipping"),
       transcript |-> None, mental_model_id |-> NullId],
      [title |-> Chars("12"), transcript |-> Chars("Often also known as Occam's Razor."),
       mental_model_id |-> NullId],
      [title |-> Chars("Zebra crossing"),
       transcript |-> Chars("it is hanlon's razor or inversion"),
       mental_model_id |-> NullId],
      [title |-> None, transcript |-> None, mental_model_id |-> NullId],
      [title |-> Chars("Inversion: occam razor"), transcript |-> None,
       mental_model_id |-> NullId],
      [title |-> Chars("Inversion"), transcript |-> <<"x">>, mental_model_id |-> 2] }

\* at most this many rows in episodes
MaxRepairEpisodes == 2

RepairEpisodeTables == UNION { [1..n -> RepairPool] : n \in 0..MaxRepairEpisodes }

InitRepair ==
    /\ pc = "start"
    /\ fn = "names"
    /\ text = None
    /\ once = None
    /\ twice = None
    /\ guessed = None
    /\ canon_guess = None
    /\ \E t \in RepairTables : models = RowsOf(t)
    /\ model_index = <<>>
    /\ row = 1
    /\ title = None
    /\ canon_title = None
    /\ match = NoMatch
    /\ model_variants = <<>>
    /\ episodes = <<>>
    /\ \E t \in RepairEpisodeTables :
         /\ mental_model_id = [k \in 1..Len(t) |-> t[k].mental_model_id]
         /\ titles = [k \in 1..Len(t) |-> t[k].title]
         /\ transcripts = [k \in 1..Len(t) |-> t[k].transcript]
         /\ write_fails \in {{}} \cup {{id} : id \in 1..Len(t)}
    /\ sheet = <<>>
    /\ schema = <<>>
    /\ committed = FALSE
    /\ dry_run = FALSE
    /\ ep = 1
    /\ counts = NoRepairCounts
    /\ examples = <<>>
    /\ output = <<>>
    /\ NoMore

\* the rows of episodes without a link, ordered by id
Unlinked(k) ==
    LET ids == { id \in 1..Len(mental_model_id) : mental_model_id[id] = NullId }
        nth == CHOOSE id \in ids : Cardinality({ j \in ids : j <= id }) = k
    IN  [id |-> nth, title |-> titles[nth], transcript |-> transcripts[nth],
         mental_model_id |-> mental_model_id[nth]]

\* the index, and the episodes to repair
RepairStart ==
    /\ pc = "start"
    /\ model_index' = build_mental_model_index("names", models)
    /\ episodes' = [k \in 1..Cardinality({ id \in 1..Len(mental_model_id) :
                                             mental_model_id[id] = NullId }) |-> Unlinked(k)]
    /\ pc' = "loop"
    /\ UNCHANGED <<fn, canonVars, models, row, title, canon_title, match, model_variants,
                   mental_model_id, titles, transcripts, write_fails, sheet, schema,
                   committed, dry_run, ep, counts, examples, output, moreVars>>

\* the pass without the rollback: an UPDATE that raised stays in the table
RepairEpisodeNoRollback ==
    /\ pc = "loop"
    /\ ep <= Len(episodes)
    /\ \E episode \in {episodes[ep]} :
        \E known \in Orderings(KnownFound(OrEmpty(episode.title),
                                          OrEmpty(episode.transcript))) :
         \E chosen_model \in
              {ChosenModel(extract_model_candidates(OrEmpty(episode.title),
                                                    OrEmpty(episode.transcript), known),
                           model_index)} :
           IF chosen_model = NoModel
           THEN /\ counts' = [counts EXCEPT !.skipped = @ + 1]
                /\ UNCHANGED <<mental_model_id, titles, committed>>
           ELSE IF episode.id \in write_fails
           THEN /\ mental_model_id' = [mental_model_id EXCEPT ![episode.id] = chosen_model.id]
                /\ counts' = [counts EXCEPT !.skipped = @ + 1]
                /\ UNCHANGED <<titles, committed>>
           ELSE /\ mental_model_id' = [mental_model_id EXCEPT ![episode.id] = chosen_model.id]
                /\ titles' =
                     IF \/ title_looks_bad(OrEmpty(episode.title))
                        \/ Strip(OrEmpty(episode.title)) = <<>>
                     THEN [titles EXCEPT ![episode.id] = chosen_model.name]
                     ELSE titles
                /\ committed' = TRUE
                /\ counts' = [counts EXCEPT !.fixed = @ + 1]
    /\ ep' = ep + 1
    /\ UNCHANGED <<pc, fn, canonVars, matchVars, model_variants, episodes, transcripts,
                   write_fails, sheet, schema, dry_run, examples, output, moreVars>>

\* one pass of "for row in episodes"
RepairEpisode ==
    /\ pc = "loop"
    /\ ep <= Len(episodes)
    /\ \E episode \in {episodes[ep]} :
        \E known \in Orderings(KnownFound(OrEmpty(episode.title),
                                          OrEmpty(episode.transcript))) :
         \E chosen_model \in
              {ChosenModel(extract_model_candidates(OrEmpty(episode.title),
                                                    OrEmpty(episode.transcript), known),
                           model_index)} :
           IF chosen_model = NoModel \/ episode.id \in write_fails
           THEN \* nothing matched, or the UPDATE raised and was rolled back
                /\ counts' = [counts EXCEPT !.skipped = @ + 1]
                /\ UNCHANGED <<mental_model_id, titles, committed>>
           ELSE /\ mental_model_id' = [mental_model_id EXCEPT ![episode.id] = chosen_model.id]
                /\ titles' =
                     IF \/ title_looks_bad(OrEmpty(episode.title))
                        \/ Strip(OrEmpty(episode.title)) = <<>>
                     THEN [titles EXCEPT ![episode.id] = chosen_model.name]
                     ELSE titles
                /\ committed' = TRUE
                /\ counts' = [counts EXCEPT !.fixed = @ + 1]
    /\ ep' = ep + 1
    /\ UNCHANGED <<pc, fn, canonVars, matchVars, model_variants, episodes, transcripts,
                   write_fails, sheet, schema, dry_run, examples, output, moreVars>>

\* the summary
RepairFinish ==
    /\ pc = "loop"
    /\ ep > Len(episodes)
    /\ output' = Append(output, "repair summary")
    /\ pc' = "done"
    /\ UNCHANGED <<fn, canonVars, matchVars, model_variants, episodes, mental_model_id,
                   titles, transcripts, write_fails, sheet, schema, committed, dry_run, ep,
                   counts, examples, moreVars>>

NextRepair == RepairStart \/ RepairEpisode \/ RepairFinish

SpecRepair == InitRepair /\ [][NextRepair]_vars

\* C14: with no concept in mental_models a batch linking run examines no episode and
\* does not complete with its summary.
C14_NoModelsFailsFast ==
    models = <<>> => (ep = 1 /\ pc # "done")

\* C15: a run of auto_link_models_from_transcripts that has returned has printed the
\* summary counts, on every path.
C15_SummaryBeforeReturn ==
    (pc = "done" /\ fn = "names" /\ "using column" \in {output[k] : k \in 1..Len(output)})
        => "summary" \in {output[k] : k \in 1..Len(output)}

\* the pass of the repair loop over an episode for which a model is chosen and whose
\* UPDATE raises
WriteFails ==
    /\ pc = "loop" /\ fn = "names" /\ ep <= Len(episodes) /\ ep' = ep + 1
    /\ episodes[ep].id \in write_fails

\* C16: when the write of an episode's link fails, no mental_model_id and no title of
\* the table changes (the episode's own and the ones committed before), the episode
\* is counted as skipped, and the loop goes on to the next episode until all are done.
C16_FailedWriteIsSkipped ==
    /\ [][ WriteFails =>
             /\ mental_model_id' = mental_model_id
             /\ titles' = titles
             /\ counts' = [counts EXCEPT !.skipped = @ + 1]
             /\ pc' = "loop" ]_vars
    /\ []((pc = "done" /\ fn = "names") =>
             ep = Len(episodes) + 1)

\* the write for the first episode failed, and the second episode was linked after it
C16_Witness ==
    /\ pc = "done" /\ write_fails = {1} /\ Len(episodes) = 2
    /\ \E known \in Orderings(KnownFound(OrEmpty(episodes[1].title),
                                         OrEmpty(episodes[1].transcript))) :
         ChosenModel(extract_model_candidates(OrEmpty(episodes[1].title),
                                              OrEmpty(episodes[1].transcript), known),
                     model_index) # NoModel
    /\ mental_model_id[1] = NullId /\ titles[1] = episodes[1].title
    /\ mental_model_id[2] # NullId
    /\ counts = [fixed |-> 1, skipped |-> 1]

\* the first episode was linked, the write for the second failed, the first link stays
C16_WitnessEarlier ==
    /\ pc = "done" /\ write_fails = {2} /\ Len(episodes) = 2
    /\ mental_model_id[1] # NullId /\ mental_model_id[2] = NullId
    /\ counts = [fixed |-> 1, skipped |-> 1]
    /\ titles[1] # episodes[1].title

RECURSIVE CountsAfter(_)
\* the four counts after the first n episodes, as the table at the start, the index
\* and the variants decide them
CountsAfter(n) ==
    IF n = 0 THEN NoCounts
    ELSE CHOOSE after \in
           { IF Strip(OrEmpty(episodes[n].transcript)) = <<>> THEN before
             ELSE IF episodes[n].mental_model_id # NullId
             THEN [before EXCEPT !.already_linked = @ + 1]
             ELSE IF reason \in {"no_match", "ambiguous"}
             THEN [before EXCEPT ![reason] = @ + 1]
             ELSE [before EXCEPT !.linked = @ + 1] :
               before \in {CountsAfter(n - 1)},
               reason \in {ChooseModel(model_index, model_variants, episodes[n]).reason} } :
           TRUE

\* C17: a run with dry_run=True leaves every row of episodes as it was and commits
\* nothing, and the four counts of a run are those the table at the start decides,
\* the same with dry_run=True and with dry_run=False.
C17_DryRunSameCounts ==
    (fn = "names" /\ pc \in {"loop", "done"} /\ model_variants # <<>>) =>
        /\ counts = CountsAfter(ep - 1)
        /\ dry_run =>
             /\ mental_model_id = [k \in 1..Len(episodes) |-> episodes[k].mental_model_id]
             /\ titles = [k \in 1..Len(episodes) |-> episodes[k].title]
             /\ transcripts = [k \in 1..Len(episodes) |-> episodes[k].transcript]
             /\ ~committed

\* the summary of a dry run that counts a new link
C17_Witness ==
    /\ pc = "done" /\ dry_run /\ output[Len(output)] = "summary"
    /\ counts.linked = 1 /\ mental_model_id = <<NullId>>

\* C18: a step of auto-link changes no title and no transcript, and changes the
\* mental_model_id only of an episode that had none at the start, has none now and
\* has a transcript that is not blank.
C18_OnlyUnlinkedChange ==
    [][ /\ titles' = titles
        /\ transcripts' = transcripts
        /\ \A k \in 1..Len(mental_model_id) :
             mental_model_id'[k] # mental_model_id[k] =>
               /\ episodes[k].mental_model_id = NullId
               /\ mental_model_id[k] = NullId
               /\ Strip(OrEmpty(transcripts[k])) # <<>> ]_vars

\* the loop has passed an episode that had a link, where the variants of another
\* model are in the transcript, and has left the link
C18_Witness ==
    /\ pc = "done" /\ ~dry_run /\ counts.already_linked = 1
    /\ mental_model_id = <<1>>
    /\ ChooseModel(model_index, model_variants, episodes[1]).model_id = 2

(***************************************************************************)
(* mmtool/models.py: import_models_from_excel, over the column of the      *)
(* names and the column of the descriptions; the columns of the categories *)
(* and of the notes go the way of the descriptions.                        *)
(***************************************************************************)
\* LOWER(x) of SQLite, which converts the ASCII letters only
SqlLower(s) ==
    [k \in 1..Len(s) |->
        IF s[k] \in Upper THEN LowerSeq[CHOOSE j \in 1..Len(UpperSeq) : UpperSeq[j] = s[k]]
        ELSE s[k]]

NoImportCounts == [inserted |-> 0, updated |-> 0]

\* at most this many rows in a sheet
MaxSheetRows == 2

\* rows of a sheet: an empty cell is None
SheetRows ==
    { [name |-> None, description |-> <<"d">>],
      [name |-> Chars("  "), description |-> None],
      [name |-> Chars("Abc"), description |-> None],
      [name |-> Chars("ABC "), description |-> Chars(" d")],
      [name |-> <<"U+00C9", "x">>, description |-> None],
      [name |-> <<"U+00E9", "x">>, description |-> <<"e">>] }

Sheets == UNION { [1..n -> SheetRows] : n \in 0..MaxSheetRows }

InitImport ==
    /\ pc = "start"
    /\ fn = "names"
    /\ text = None
    /\ once = None
    /\ twice = None
    /\ guessed = None
    /\ canon_guess = None
    /\ models = <<>>
    /\ model_index = <<>>
    /\ row = 1
    /\ title = None
    /\ canon_title = None
    /\ match = NoMatch
    /\ NoLinkRun
    /\ NoMore

\* a run starts: the sheet is read, the name column of the table is found
ImportStart ==
    /\ pc \in {"start", "done"}
    /\ sheet' \in Sheets
    /\ row' = 1
    /\ counts' = NoImportCounts
    /\ output' = <<"using column">>
    /\ committed' = FALSE
    /\ pc' = "rows"
    /\ UNCHANGED <<fn, canonVars, models, model_index, title, canon_title, match,
                   model_variants, episodes, mental_model_id, titles, transcripts,
                   write_fails, schema, dry_run, ep, examples, moreVars>>

\* one pass of "for _, row in df.iterrows()"
ImportRow ==
    /\ pc = "rows"
    /\ row <= Len(sheet)
    /\ \E model_name \in {IF sheet[row].name = None THEN <<>> ELSE Strip(sheet[row].name)},
          desc_val \in {IF sheet[row].description = None THEN None
                        ELSE Strip(sheet[row].description)} :
         \E existing \in
              {{ k \in 1..Len(models) : SqlLower(models[k].name) = SqlLower(model_name) }} :
           IF model_name = <<>>
           THEN UNCHANGED <<models, counts>>
           ELSE IF existing # {}
           THEN /\ \E k \in existing :
                     models' = [models EXCEPT
                                  ![k] = [id |-> @.id, name |-> model_name,
                                          description |->
                                            IF desc_val # None THEN desc_val
                                            ELSE @.description]]
                /\ counts' = [counts EXCEPT !.updated = @ + 1]
           ELSE /\ models' = Append(models, [id |-> Len(models) + 1, name |-> model_name,
                                             description |-> desc_val])
                /\ counts' = [counts EXCEPT !.inserted = @ + 1]
    /\ row' = row + 1
    /\ UNCHANGED <<pc, fn, canonVars, model_index, title, canon_title, match,
                   model_variants, episodes, mental_model_id, titles, transcripts,
                   write_fails, sheet, schema, committed, dry_run, ep, examples, output,
                   moreVars>>

\* the commit and the summary
ImportFinish ==
    /\ pc = "rows"
    /\ row > Len(sheet)
    /\ committed' = TRUE
    /\ output' = Append(output, "summary")
    /\ pc' = "done"
    /\ UNCHANGED <<fn, canonVars, matchVars, model_variants, episodes, mental_model_id,
                   titles, transcripts, write_fails, sheet, schema, dry_run, ep, counts,
                   examples, moreVars>>

NextImport == ImportStart \/ ImportRow \/ ImportFinish

SpecImport == InitImport /\ [][NextImport]_vars

\* C19: in mental_models no name is blank and no two rows have names that are equal
\* without regard to case.
C19_NamesUniqueIgnoringCase ==
    \A j, k \in 1..Len(models) :
        /\ Strip(models[k].name) # <<>>
        /\ j # k => ToLower(models[j].name) # ToLower(models[k].name)

(***************************************************************************)
(* mmtool/db.py: ensure_schema, as get_conn runs it on a database file.    *)
(* A table has its columns in order and its rows, a row the values of the  *)
(* columns in that order; schema.error tells that a statement raised.      *)
(***************************************************************************)
TableNames == <<"mental_models", "episodes">>

\* the columns of the two CREATE TABLE statements
CreatedColumns ==
    [mental_models |->
        <<Chars("id"), Chars("name"), Chars("category"), Chars("description"),
          Chars("notes"), Chars("metadata")>>,
     episodes |->
        <<Chars("id"), Chars("mental_model_id"), Chars("title"), Chars("description"),
          Chars("rss_guid"), Chars("rss_link"), Chars("rss_pubdate"), Chars("transcript"),
          Chars("transcript_source"), Chars("transcript_index"), Chars("created_at"),
          Chars("updated_at")>>]

\* the columns of the ensure_column calls
EnsuredColumns ==
    [mental_models |->
        <<Chars("category"), Chars("description"), Chars("notes"), Chars("metadata")>>,
     episodes |->
        <<Chars("rss_guid"), Chars("rss_link"), Chars("rss_pubdate"), Chars("transcript"),
          Chars("transcript_source"), Chars("transcript_index"), Chars("created_at"),
          Chars("updated_at")>>]

\* CREATE TABLE IF NOT EXISTS
CreateTable(db, t) ==
    IF db.error \/ t \in DOMAIN db.tables THEN db
    ELSE [db EXCEPT !.tables = (t :> [columns |-> CreatedColumns[t], rows |-> <<>>]) @@ @]

\* ensure_column: the list of PRAGMA table_info is searched for the very name, while
\* ALTER TABLE ADD COLUMN raises for a name the table has in another case; the rows
\* get NULL in a column that is added
ensure_column(db, t, column) ==
    LET cols == db.tables[t].columns
    IN  IF db.error \/ \E k \in 1..Len(cols) : cols[k] = column THEN db
        ELSE IF \E k \in 1..Len(cols) : ToLower(cols[k]) = ToLower(column)
        THEN [db EXCEPT !.error = TRUE]
        ELSE [db EXCEPT !.tables[t] =
                [columns |-> Append(cols, column),
                 rows |-> [r \in 1..Len(@.rows) |-> Append(@.rows[r], None)]]]

RECURSIVE EnsureColumns(_, _, _)
\* the ensure_column calls for table t, the first n of them
EnsureColumns(db, t, n) ==
    IF n = 0 THEN db
    ELSE ensure_column(EnsureColumns(db, t, n - 1), t, EnsuredColumns[t][n])

RECURSIVE EnsureTables(_, _)
\* ensure_schema, for the first n tables
EnsureTables(db, n) ==
    IF n = 0 THEN [db EXCEPT !.error = FALSE]
    ELSE EnsureColumns(CreateTable(EnsureTables(db, n - 1), TableNames[n]), TableNames[n],
                       Len(EnsuredColumns[TableNames[n]]))

ensure_schema(db) == EnsureTables(db, Len(TableNames))

\* an older table: id and some more columns, with the rows given
OlderTable(columns, rows) ==
    [columns |-> <<Chars("id")>> \o columns,
     rows |-> [r \in 1..rows |-> [k \in 1..(Len(columns) + 1) |-> r]]]

\* the database files the runs start from
Databases ==
    { [tables |-> tables, error |-> FALSE] :
        tables \in
          { mm @@ e :
              mm \in { <<>>,
                       "mental_models" :> OlderTable(<<Chars("name")>>, 1),
                       "mental_models" :> OlderTable(<<Chars("category")>>, 0),
                       "mental_models" :>
                          OlderTable(Tail(CreatedColumns.mental_models), 1) },
              e \in { <<>> } \cup
                   { "episodes" :> OlderTable(columns, rows) :
                       columns \in { <<>>, <<Chars("title")>>, <<Chars("transcript")>>,
                                     <<Chars("Transcript")>>,
                                     <<Chars("title"), Chars("transcript")>>,
                                     <<Chars("mental_model_id"), Chars("title"),
                                       Chars("updated_at")>>,
                                     Tail(CreatedColumns.episodes) },
                       rows \in {0, 1} } } }

InitSchema ==
    /\ pc = "start"
    /\ fn = "names"
    /\ text = None
    /\ once = None
    /\ twice = None
    /\ guessed = None
    /\ canon_guess = None
    /\ models = <<>>
    /\ model_index = <<>>
    /\ row = 1
    /\ title = None
    /\ canon_title = None
    /\ match = NoMatch
    /\ model_variants = <<>>
    /\ episodes = <<>>
    /\ mental_model_id = <<>>
    /\ titles = <<>>
    /\ transcripts = <<>>
    /\ write_fails = {}
    /\ sheet = <<>>
    /\ schema \in Databases
    /\ committed = FALSE
    /\ dry_run = FALSE
    /\ ep = 1
    /\ counts = NoCounts
    /\ examples = <<>>
    /\ output = <<>>
    /\ NoMore

\* init-db: get_conn, which runs ensure_schema; a first and a second time
EnsureSchema ==
    /\ pc \in {"start", "once"}
    /\ schema' = ensure_schema(schema)
    /\ pc' = IF pc = "start" THEN "once" ELSE "twice"
    /\ UNCHANGED <<fn, canonVars, matchVars, model_variants, episodes, mental_model_id,
                   titles, transcripts, write_fails, sheet, committed, dry_run, ep, counts,
                   examples, output, moreVars>>

NextSchema == EnsureSchema

SpecSchema == InitSchema /\ [][NextSchema]_vars

\* every table of old is in new with its columns in their places and its rows, the
\* values of those columns as they were
Preserved(old, new) ==
    \A t \in DOMAIN old :
        /\ t \in DOMAIN new
        /\ Len(new[t].columns) >= Len(old[t].columns)
        /\ SubSeq(new[t].columns, 1, Len(old[t].columns)) = old[t].columns
        /\ Len(new[t].rows) = Len(old[t].rows)
        /\ \A r \in 1..Len(old[t].rows) :
             SubSeq(new[t].rows[r], 1, Len(old[t].columns)) = old[t].rows[r]

\* the two tables are there, each with every column of its CREATE TABLE statement
Complete(tables) ==
    \A n \in 1..Len(TableNames) :
        /\ TableNames[n] \in DOMAIN tables
        /\ \A c \in 1..Len(CreatedColumns[TableNames[n]]) :
             \E k \in 1..Len(tables[TableNames[n]].columns) :
                tables[TableNames[n]].columns[k] = CreatedColumns[TableNames[n]][c]

\* C20: a run of ensure_schema keeps every table, column and row there is, leaves the
\* database with every expected table and column, and a second run changes nothing.
C20_NonDestructiveCompleteIdempotent ==
    [][ /\ Preserved(schema.tables, schema'.tables)
        /\ Complete(schema'.tables)
        /\ pc = "once" => schema' = schema ]_vars

(***************************************************************************)
(* Properties of SpecCanon: the spellings of "versus".                     *)
(***************************************************************************)
\* C21: names.canonicalize_name gives a name the same key whichever of " versus ",
\* " vs. " and " vs " it is spelled with.
C21_VersusSpellingsSameKey ==
    (pc = "once" /\ fn = "names" /\ text # None) =>
        \A from \in VsForms, to \in VsForms :
            Contains(text, from) => canonicalize_name(Replace(text, from, to)) = once

(***************************************************************************)
(* Properties of SpecLink: the variant list.                               *)
(***************************************************************************)
\* the forms a variant of the lower-cased name base may have, stripped
VariantForms(base) ==
    { Strip(w) :
        w \in {base, Strip(BeforeFirst(base, "("))}
              \cup (IF StartsAt(base, 1, Chars("the ")) THEN {SubSeq(base, 5, Len(base))}
                    ELSE {})
              \cup {Replace(base, from, to) : from \in VsForms, to \in VsForms} }

\* C22: every entry of model_variants has a variant of at least 4 characters, the
\* length of that variant, and the id and name of the row of mental_models it was
\* built from; the variant is the lower-cased name, that name without a leading
\* "the ", its part before the first parenthesis or the name with another spelling of
\* versus; a row with a blank name has no entry.
C22_VariantEntries ==
    model_variants # <<>> =>
        \A n \in 1..Len(model_variants) :
            \E k \in 1..Len(models) :
                /\ models[k].id = model_variants[n].model_id
                /\ models[k].name = model_variants[n].model_name
                /\ Strip(models[k].name) # <<>>
                /\ \A v \in model_variants[n].variants :
                     /\ Len(v.variant) >= 4
                     /\ v.length = Len(v.variant)
                     /\ v.variant \in VariantForms(ToLower(models[k].name))

\* a table with a blank name and a name with "the ", a parenthesis and "vs.": the
\* second row has its five variants, the first none
C22_Witness ==
    /\ Len(models) = 2
    /\ Strip(models[1].name) = <<>>
    /\ Len(model_variants) = 1
    /\ model_variants[1].model_id = 2
    /\ {v.variant : v \in model_variants[1].variants} =
          { Chars("the map vs. territory (x)"), Chars("map vs. territory (x)"),
            Chars("the map vs. territory"), Chars("the map vs territory (x)"),
            Chars("the map versus territory (x)") }

\* a table whose only named row gives a part before the parenthesis of 3 characters
C22_WitnessShort ==
    /\ Len(models) = 2
    /\ Len(model_variants) = 1
    /\ {v.variant : v \in model_variants[1].variants} = {Chars("the (abc) x"), Chars("(abc) x")}

(***************************************************************************)
(* mm_tool.py: repair_model_links, with the title_looks_bad and the        *)
(* guess_model_name_from_text of that file.                                *)
(***************************************************************************)
mm_tool_title_looks_bad(t) ==
    LET stripped == Strip(t)
        d == SkipSet(stripped, 1, Digit)
        n == Len(stripped)
    IN  \/ stripped = <<>>
        \/ n < 3
        \/ (d > 1 /\ d = n + 1)
        \/ ToLower(stripped) \in {Chars("new recording"), Chars("untitled")}
        \/ StartsAt(ToLower(stripped), 1, Chars("episode from "))
        \* re.fullmatch(r"\d+(\.\ds?)?", title)
        \/ /\ d > 1
           /\ d + 1 <= n /\ stripped[d] = "." /\ stripped[d + 1] \in Digit
           /\ (d + 1 = n \/ (d + 2 = n /\ stripped[n] = "s"))
        \/ n <= 4

\* the intro patterns, then the capitalised phrase before "is", "are", ...
mm_tool_guess_model_name_from_text(t) ==
    IF t = None \/ t = <<>> THEN None
    ELSE CHOOSE name \in UNION
      { { IF matching # {}
          THEN IntroName(snippet, SearchIntro(Min(matching), snippet))
          ELSE CHOOSE found \in
                 { IF copula = NoSpan THEN None
                   ELSE clean_raw_name(Group(snippet, copula)) :
                     copula \in {SearchFallback(3, snippet)} } : TRUE :
            matching \in {{n \in 1..4 : SearchIntro(n, snippet) # NoSpan}} } :
          snippet \in {NFKD(SubSeq(t, 1, Min({Len(t), MaxSnippet})))} } : TRUE

\* rows of episodes without their id, for the runs of mm_tool.repair_model_links
MmRepairPool ==
    { [title |-> Chars("inversion"), transcript |-> None, mental_model_id |-> NullId],
      [title |-> Chars("Inversions"), transcript |-> None, mental_model_id |-> NullId],
      [title |-> Chars("Zebra crossing"),
       transcript |-> Chars("Today, we're exploring Inversion. More soon."),
       mental_model_id |-> NullId],
      [title |-> Chars("Zebra crossing"), transcript |-> None, mental_model_id |-> NullId],
      [title |-> Chars("12"), transcript |-> Chars("Abcd is simple."),
       mental_model_id |-> NullId],
      [title |-> None, transcript |-> <<"x">>, mental_model_id |-> NullId],
      [title |-> Chars("Inversion"), transcript |-> <<"x">>, mental_model_id |-> 2] }

MmRepairEpisodeTables == UNION { [1..n -> MmRepairPool] : n \in 0..MaxRepairEpisodes }

InitMmRepair ==
    /\ pc = "start"
    /\ fn = "mm_tool"
    /\ text = None
    /\ once = None
    /\ twice = None
    /\ guessed = None
    /\ canon_guess = None
    /\ \E t \in {<<>>, <<Inversion, Chars("Abcd"), HanlonsRazor>>} : models = RowsOf(t)
    /\ model_index = <<>>
    /\ row = 1
    /\ title = None
    /\ canon_title = None
    /\ match = NoMatch
    /\ model_variants = <<>>
    /\ episodes = <<>>
    /\ \E t \in MmRepairEpisodeTables :
         /\ mental_model_id = [k \in 1..Len(t) |-> t[k].mental_model_id]
         /\ titles = [k \in 1..Len(t) |-> t[k].title]
         /\ transcripts = [k \in 1..Len(t) |-> t[k].transcript]
    /\ write_fails = {}
    /\ sheet = <<>>
    /\ schema = <<>>
    /\ committed = FALSE
    /\ dry_run = FALSE
    /\ ep = 1
    /\ counts = NoRepairCounts
    /\ examples = <<>>
    /\ output = <<>>
    /\ NoMore

\* the index, and the episodes to repair
MmRepairStart ==
    /\ pc = "start"
    /\ model_index' = build_mental_model_index("mm_tool", models)
    /\ episodes' = [k \in 1..Cardinality({ id \in 1..Len(mental_model_id) :
                                             mental_model_id[id] = NullId }) |-> Unlinked(k)]
    /\ pc' = "loop"
    /\ UNCHANGED <<fn, canonVars, models, row, title, canon_title, match, model_variants,
                   mental_model_id, titles, transcripts, write_fails, sheet, schema,
                   committed, dry_run, ep, counts, examples, output, moreVars>>

\* the candidates loop after the first "skipped += 1": the canonical title, then the
\* canonical guess if it is another key
MmChosenModel(canon, guess, index) ==
    IF canon # <<>> /\ IndexGet(index, canon) # NoModel THEN IndexGet(index, canon)
    ELSE IF guess # <<>> /\ guess # canon THEN IndexGet(index, guess)
    ELSE NoModel

\* one pass of "for row in episodes"
MmRepairEpisode ==
    /\ pc = "loop"
    /\ ep <= Len(episodes)
    /\ \E episode \in {episodes[ep]} :
        \E canon \in {mm_tool_canonicalize_name(OrEmpty(episode.title))} :
         \E best \in {get_best_model_match(canon, model_index)} :
           IF Strip(OrEmpty(episode.title)) = <<>>
           THEN /\ counts' = [counts EXCEPT !.skipped = @ + 1]
                /\ UNCHANGED <<mental_model_id, titles, committed>>
           ELSE IF best.model # NoModel /\ Ge(best.score, <<7, 10>>)
           THEN /\ mental_model_id' = [mental_model_id EXCEPT ![episode.id] = best.model.id]
                /\ titles' =
                     IF mm_tool_title_looks_bad(OrEmpty(episode.title)) \/ best.type = "exact"
                     THEN [titles EXCEPT ![episode.id] = best.model.name]
                     ELSE titles
                /\ committed' = TRUE
                /\ counts' = [counts EXCEPT !.fixed = @ + 1]
           ELSE \* no good match: "skipped += 1", and the pass goes on
                \E raw \in {mm_tool_guess_model_name_from_text(OrEmpty(episode.transcript))} :
                 \E guess \in {IF raw = None THEN <<>> ELSE mm_tool_canonicalize_name(raw)} :
                  \E chosen_model \in {MmChosenModel(canon, guess, model_index)} :
                    IF chosen_model = NoModel
                    THEN /\ counts' = [counts EXCEPT !.skipped = @ + 2]
                         /\ UNCHANGED <<mental_model_id, titles, committed>>
                    ELSE /\ mental_model_id' =
                              [mental_model_id EXCEPT ![episode.id] = chosen_model.id]
                         /\ titles' =
                              IF mm_tool_title_looks_bad(OrEmpty(episode.title))
                              THEN [titles EXCEPT ![episode.id] = chosen_model.name]
                              ELSE titles
                         /\ counts' = [counts EXCEPT !.skipped = @ + 1, !.fixed = @ + 1]
                         /\ UNCHANGED committed
    /\ ep' = ep + 1
    /\ UNCHANGED <<pc, fn, canonVars, matchVars, model_variants, episodes, transcripts,
                   write_fails, sheet, schema, dry_run, examples, output, moreVars>>

\* conn.commit() and the summary
MmRepairFinish ==
    /\ pc = "loop"
    /\ ep > Len(episodes)
    /\ committed' = TRUE
    /\ output' = Append(output, "repair summary")
    /\ pc' = "done"
    /\ UNCHANGED <<fn, canonVars, matchVars, model_variants, episodes, mental_model_id,
                   titles, transcripts, write_fails, sheet, schema, dry_run, ep, counts,
                   examples, moreVars>>

NextMmRepair == MmRepairStart \/ MmRepairEpisode \/ MmRepairFinish

SpecMmRepair == InitMmRepair /\ [][NextMmRepair]_vars

\* an episode of the run under way is linked in this step
Links == pc = "loop" /\ ep <= Len(episodes) /\ ep' = ep + 1
         /\ mental_model_id'[episodes[ep].id] # NullId

\* C23: when repair_model_links links an episode, it replaces the title by the name of
\* the model if the title looks bad, and leaves the title as it is otherwise.
C23_TitleReplacedOnlyIfBad ==
    [][ Links =>
          titles'[episodes[ep].id] =
              IF (IF fn = "names" THEN title_looks_bad(OrEmpty(episodes[ep].title))
                  ELSE mm_tool_title_looks_bad(OrEmpty(episodes[ep].title)))
              THEN models[mental_model_id'[episodes[ep].id]].name
              ELSE titles[episodes[ep].id] ]_vars

(***************************************************************************)
(* Properties of SpecRepair: the exact match.                              *)
(***************************************************************************)
\* the concepts stored under the keys that a candidate of the episode equals
ExactConcepts(episode) ==
    UNION { { IndexGet(model_index, candidates[c][2]).id : c \in 1..Len(candidates) }
              \ {NullId} :
            candidates \in
              { extract_model_candidates(OrEmpty(episode.title), OrEmpty(episode.transcript),
                                         known) :
                  known \in Orderings(KnownFound(OrEmpty(episode.title),
                                                 OrEmpty(episode.transcript))) } }

\* C24: when a candidate of an episode equals a key of the index and the UPDATE does
\* not fail, the episode is linked to the concept under the key of such a candidate.
C24_ExactCandidateWins ==
    [][ ( /\ pc = "loop" /\ fn = "names" /\ ep <= Len(episodes) /\ ep' = ep + 1
          /\ episodes[ep].id \notin write_fails
          /\ ExactConcepts(episodes[ep]) # {} )
        => mental_model_id'[episodes[ep].id] \in ExactConcepts(episodes[ep]) ]_vars

(***************************************************************************)
(* Properties of the runs of repair_model_links: the counts.               *)
(***************************************************************************)
\* C27: every episode examined is counted once, as fixed or as skipped: after each
\* pass the two counts add up to the number of episodes passed, and at the summary to
\* the number of episodes examined.
C27_CountedOnce ==
    /\ pc = "loop" => counts.fixed + counts.skipped = ep - 1
    /\ (pc = "done" /\ output # <<>>) => counts.fixed + counts.skipped = Len(episodes)

(***************************************************************************)
(* podcastGenerator/utils/find_nearest_gap.py.  Times are whole seconds.   *)
(* The segments are as identify_transition_points collects them: in the    *)
(* order of time, each at least gap_duration long, one starting after the  *)
(* end of the one before.                                                  *)
(***************************************************************************)
Tolerance == 7

Abs(x) == IF x < 0 THEN 0 - x ELSE x

\* the pair (None, None), apart from every pair of times
NoneNone == <<>>

RECURSIVE find_nearest_gap(_, _, _, _)
\* the loop over silent_segments from the k-th
find_nearest_gap(segments, target, tolerance, k) ==
    IF k > Len(segments) THEN NoneNone
    ELSE IF Abs(segments[k][1] - target) <= tolerance THEN segments[k]
    ELSE find_nearest_gap(segments, target, tolerance, k + 1)

\* at most this many silent segments
MaxSegments == 3

SegmentStarts == {40, 43, 46, 49, 52, 55, 58, 76, 90}

\* the lists of segments, a segment given by its start and its length
SegmentLists ==
    { segments \in UNION { [1..n -> SegmentStarts \X {2, 3}] : n \in 0..MaxSegments } :
        \A k \in 2..Len(segments) : segments[k][1] > segments[k - 1][1] + segments[k - 1][2] }

\* target_times of identify_transition_points
TargetTimes == {50, 80, 105}

\* no canonicalizer and no matching is under way
NoNames ==
    /\ text = None
    /\ once = None
    /\ twice = None
    /\ guessed = None
    /\ canon_guess = None
    /\ row = 1
    /\ title = None
    /\ canon_title = None
    /\ match = NoMatch

InitGap ==
    /\ pc = "start"
    /\ fn = "names"
    /\ NoNames
    /\ models = <<>>
    /\ model_index = <<>>
    /\ NoLinkRun
    /\ \E segments \in SegmentLists :
         silent_segments = [k \in 1..Len(segments) |->
                              <<segments[k][1], segments[k][1] + segments[k][2]>>]
    /\ target_time \in TargetTimes
    /\ gap = <<>>
    /\ NoCleaning
    /\ NoScan

\* start, end = find_nearest_gap(silent_segments, target_time)
FindNearestGap ==
    /\ pc = "start"
    /\ gap' = find_nearest_gap(silent_segments, target_time, Tolerance, 1)
    /\ pc' = "done"
    /\ UNCHANGED <<fn, canonVars, matchVars, linkVars, silent_segments, target_time,
                   raw_transcript, cleaned_transcript, files, existing_by_model,
                   existing_by_title, scans, feed, rss_guid>>

NextGap == FindNearestGap

SpecGap == InitGap /\ [][NextGap]_vars

\* the segments whose start lies within the tolerance of the target time
WithinTolerance ==
    { k \in 1..Len(silent_segments) : Abs(silent_segments[k][1] - target_time) <= Tolerance }

\* C25: find_nearest_gap returns (None, None) exactly when no segment starts within the
\* tolerance of the target time, and otherwise such a segment with no other one
\* starting nearer to the target.
C25_NearestWithinTolerance ==
    pc = "done" =>
        IF WithinTolerance = {} THEN gap = NoneNone
        ELSE \E k \in WithinTolerance :
               /\ gap = silent_segments[k]
               /\ \A j \in WithinTolerance :
                    Abs(silent_segments[k][1] - target_time)
                        <= Abs(silent_segments[j][1] - target_time)

(***************************************************************************)
(* podcastGenerator/components/transcript_generator.py: clean_transcript.  *)
(***************************************************************************)
STANDARD_WELCOME ==
    Chars("Welcome to Mental Models Daily, where we explore one mental model each day")

STANDARD_OUTRO ==
    Chars("For more mental models, please visit mentalmodelsdaily.com or ")
    \o Chars("find us on X or Instagram. Our Podcast music was provided by ")
    \o Chars("thePodcasthost.com & Alitu: The Podcast Maker. Find your own free ")
    \o Chars("podcast music over at thePodcasthost.com/freemusic.")

\* the exception of lines[0] on an empty list, apart from every str
IndexError == <<"IndexError">>

\* \\?\s*/?> at p: where it ends, or 0
TagClose(s, p) ==
    LET a == IF p >= 1 /\ p <= Len(s) /\ s[p] = "\\" THEN p + 1 ELSE p
        b == SkipSet(s, a, Space)
        c == IF b >= 1 /\ b <= Len(s) /\ s[b] = "/" THEN b + 1 ELSE b
    IN  Lit(s, c, <<">">>)

\* \\?<break\s*(?:time="(.*?)")?\\?\s*/?> at i: where the match ends, or 0
BreakTagEnd(s, i) ==
    LET a == IF s[i] = "\\" THEN i + 1 ELSE i
        c == SkipSet(s, Lit(s, a, Chars("<break")), Space)
        t == Lit(s, c, Chars("time=\""))
        \* (.*?)" : the quotes that a value without a newline may end at
        quotes == { q \in t..Len(s) :
                      /\ t # 0
                      /\ s[q] = "\""
                      /\ \A k \in t..(q - 1) : s[k] # "\n"
                      /\ TagClose(s, q + 1) # 0 }
    IN  IF c = 0 THEN 0
        ELSE IF quotes # {} THEN TagClose(s, Min(quotes) + 1)
        ELSE TagClose(s, c)

RECURSIVE NormalizeBreaks(_, _)
\* re.sub of every break tag by <break time="1.3s" />, from position i on
NormalizeBreaks(s, i) ==
    CHOOSE r \in
      { IF starts = {} THEN SubSeq(s, i, Len(s))
        ELSE SubSeq(s, i, Min(starts) - 1) \o Chars("<break time=\"1.3s\" />")
             \o NormalizeBreaks(s, BreakTagEnd(s, Min(starts))) :
          starts \in {{k \in i..Len(s) : BreakTagEnd(s, k) # 0}} } : TRUE

\* (<break\s+time=")[^"]*(" />) at i: where the first group ends and where the second
\* starts, or <<0, 0>>
FirstBreakAt(s, i) ==
    LET t == Lit(s, WsPlus(s, Lit(s, i, Chars("<break"))), Chars("time=\""))
        q == SkipSet(s, t, {c \in {s[k] : k \in 1..Len(s)} : c # "\""})
    IN  IF t # 0 /\ Lit(s, q, Chars("\" />")) # 0 THEN <<t, q>> ELSE <<0, 0>>

\* re.sub(..., r'\g<1>1s\g<2>', transcript, count=1)
FirstBreakOneSecond(s) ==
    CHOOSE r \in
      { IF starts = {} THEN s
        ELSE SubSeq(s, 1, FirstBreakAt(s, Min(starts))[1] - 1) \o Chars("1s")
             \o SubSeq(s, FirstBreakAt(s, Min(starts))[2], Len(s)) :
          starts \in {{k \in 1..Len(s) : FirstBreakAt(s, k) # <<0, 0>>}} } : TRUE

\* transcript.replace("\\'", "'").replace("\\n", "\n").replace("\\", "")
Unescape(s) ==
    Replace(Replace(Replace(s, Chars("\\'"), <<"'">>), Chars("\\n"), <<"\n">>),
            <<"\\">>, <<>>)

\* lines is built, given the welcome and the outro, and not read again: the text
\* returned is made from transcript
clean_transcript(t) ==
    IF Strip(t) = <<>> THEN IndexError
    ELSE Unescape(FirstBreakOneSecond(NormalizeBreaks(t, 1)))

\* raw transcripts: blank ones, and texts put together from a first line with or
\* without the welcome, a break tag, a sentence and the outro or none
BlankTranscripts == {<<>>, <<" ">>, Chars("\n \n")}

BreakTags ==
    { <<>>, Chars("<break time=\"2s\" />\n"), Chars("<break/>\n"),
      Chars("\\<break time=\"2s\"\\>\n"),
      Chars("<break time=\"2s\" />\nFirst, pause.\n<break   time=\"\" >\n") }

RawTranscripts ==
    BlankTranscripts \cup
    { blank \o first \o tag \o sentence \o outro :
        blank \in {<<>>, <<"\n">>},
        first \in {STANDARD_WELCOME \o Chars(" to decide.\n"), Chars("Today: maps.\n")},
        tag \in BreakTags,
        sentence \in {Chars("It's like a map."), Chars("It\\'s like a map.\\nSo.")},
        outro \in {<<>>, <<"\n">> \o STANDARD_OUTRO} }

InitClean ==
    /\ pc = "start"
    /\ fn = "names"
    /\ NoNames
    /\ models = <<>>
    /\ model_index = <<>>
    /\ NoLinkRun
    /\ NoGap
    /\ raw_transcript \in RawTranscripts
    /\ cleaned_transcript = <<>>
    /\ NoScan

\* cleaned = clean_transcript(raw_transcript)
CleanTranscript ==
    /\ pc = "start"
    /\ cleaned_transcript' = clean_transcript(raw_transcript)
    /\ pc' = "cleaned"
    /\ UNCHANGED <<fn, canonVars, matchVars, linkVars, silent_segments, target_time, gap,
                   raw_transcript, files, existing_by_model, existing_by_title, scans,
                   feed, rss_guid>>

NextClean == CleanTranscript

SpecClean == InitClean /\ [][NextClean]_vars

\* C26: for a raw transcript that is not empty, clean_transcript returns a text whose
\* first line starts with the standard welcome and which contains the standard outro.
C26_WelcomeAndOutro ==
    (pc = "cleaned" /\ raw_transcript # <<>>) =>
        /\ cleaned_transcript # IndexError
        /\ StartsAt(FirstLine(cleaned_transcript), 1, STANDARD_WELCOME)
        /\ Contains(cleaned_transcript, STANDARD_OUTRO)

(***************************************************************************)
(* SpecScan: mmtool/transcripts.py, scan_transcripts, run over the same    *)
(* .docx files again and again.  A file is its name and the blocks         *)
(* split_into_episode_blocks returns for its text; the database keeps the  *)
(* rows of episodes between the runs.  The columns created_at and          *)
(* updated_at hold the time of the write and are left out.                 *)
(***************************************************************************)
\* the counters of scan_transcripts before its loop
NoScanCounts == [transcripts_found |-> 0, episodes_updated |-> 0, episodes_inserted |-> 0]

\* the transcript columns of a row no scan has written
NoTranscript == [transcript |-> None, transcript_source |-> None, transcript_index |-> 0]

\* cache.get(key): the id of the cached row, NullId when the key is absent
CacheGet(cache, key) ==
    IF \E k \in 1..Len(cache) : cache[k].key = key
    THEN cache[CHOOSE k \in 1..Len(cache) : cache[k].key = key].id
    ELSE NullId

\* cache.setdefault(key, row)
CacheSetDefault(cache, key, id) ==
    IF \E k \in 1..Len(cache) : cache[k].key = key
    THEN cache
    ELSE Append(cache, [key |-> key, id |-> id])

\* cache_episode: existing_by_model after the row
CacheByModel(cache, id, mid) ==
    IF mid # NullId THEN CacheSetDefault(cache, mid, id) ELSE cache

\* cache_episode: existing_by_title after the row
CacheByTitle(cache, id, t) ==
    CHOOSE filled \in
        { IF canon # <<>> THEN CacheSetDefault(cache, canon, id) ELSE cache :
            canon \in {canonicalize_name(OrEmpty(t))} } : TRUE

RECURSIVE CachedByModel(_, _)
\* existing_by_model after "for row in cur.fetchall()" over the first n rows
CachedByModel(mids, n) ==
    IF n = 0 THEN <<>>
    ELSE CacheByModel(CachedByModel(mids, n - 1), n, mids[n])

RECURSIVE CachedByTitle(_, _)
\* existing_by_title after "for row in cur.fetchall()" over the first n rows
CachedByTitle(ts, n) ==
    IF n = 0 THEN <<>>
    ELSE CHOOSE filled \in
            { CacheByTitle(before, n, ts[n]) :
                before \in {CachedByTitle(ts, n - 1)} } : TRUE

\* at most this many runs of scan_transcripts or import_rss
MaxScans == 2

\* episode blocks: of a known concept, of a name that is no concept, with no name to
\* guess, and with a guessed name whose canonical form is empty
ScanBlocks ==
    { Chars("Welcome to Mental Models Daily. Today, we're exploring Inversion. More soon."),
      Chars("Welcome to Mental Models Daily. Today, we're exploring zebra crossing. ok"),
      Chars("Welcome to Mental Models Daily. so it goes."),
      Chars("Today, we're exploring !. ok") }

\* the .docx files under episodes_root, in the order os.walk yields them
ScanFiles ==
    { <<[name |-> Chars("a.docx"), blocks |-> first]>> \o second :
        first \in { <<b>> : b \in ScanBlocks } \cup (ScanBlocks \X ScanBlocks),
        second \in { <<>>, <<[name |-> Chars("b.docx"), blocks |-> <<>>]>> }
                   \cup { <<[name |-> Chars("b.docx"), blocks |-> <<b>>]>> : b \in ScanBlocks } }

\* the rows of episodes before the first scan
ScanEpisodeTables ==
    { <<>>,
      <<[mental_model_id |-> NullId, title |-> Chars("Zebra Crossing")]>>,
      <<[mental_model_id |-> 1, title |-> None],
        [mental_model_id |-> 1, title |-> Chars("Inversion")]>> }

InitScan ==
    /\ pc = "start"
    /\ fn = "names"
    /\ NoNames
    /\ \E t \in {<<>>, <<Inversion, HanlonsRazor>>} : models = RowsOf(t)
    /\ model_index = <<>>
    /\ model_variants = <<>>
    /\ episodes = <<>>
    /\ \E t \in ScanEpisodeTables :
         /\ mental_model_id = [k \in 1..Len(t) |-> t[k].mental_model_id]
         /\ titles = [k \in 1..Len(t) |-> t[k].title]
         /\ transcripts = [k \in 1..Len(t) |-> NoTranscript]
    /\ write_fails = {}
    /\ sheet = <<>>
    /\ schema = <<>>
    /\ committed = FALSE
    /\ dry_run = FALSE
    /\ ep = 1
    /\ counts = NoScanCounts
    /\ examples = <<>>
    /\ output = <<>>
    /\ NoGap
    /\ NoCleaning
    /\ files \in ScanFiles
    /\ existing_by_model = <<>>
    /\ existing_by_title = <<>>
    /\ scans = 0
    /\ feed = <<>>
    /\ rss_guid = <<>>

\* a run starts: the index of the concepts, the two caches over the rows of episodes
ScanStart ==
    /\ pc \in {"start", "done"}
    /\ scans < MaxScans
    /\ scans' = scans + 1
    /\ model_index' = build_mental_model_index("names", models)
    /\ existing_by_model' = CachedByModel(mental_model_id, Len(mental_model_id))
    /\ existing_by_title' = CachedByTitle(titles, Len(titles))
    /\ counts' = NoScanCounts
    /\ output' = <<"scan transcripts">>
    /\ committed' = FALSE
    /\ guessed' = None
    /\ canon_guess' = None
    /\ ep' = 1
    /\ row' = 1
    /\ pc' = "files"
    /\ UNCHANGED <<fn, text, once, twice, models, title, canon_title, match, model_variants,
                   episodes, mental_model_id, titles, transcripts, write_fails, sheet,
                   schema, dry_run, examples, silent_segments, target_time, gap,
                   raw_transcript, cleaned_transcript, files, feed, rss_guid>>

\* a file in which no episode block is detected: "continue"
ScanEmptyFile ==
    /\ pc = "files"
    /\ ep <= Len(files)
    /\ files[ep].blocks = <<>>
    /\ ep' = ep + 1
    /\ row' = 1
    /\ output' = Append(output, "no episode blocks detected")
    /\ UNCHANGED <<pc, fn, canonVars, models, model_index, title, canon_title, match,
                   model_variants, episodes, mental_model_id, titles, transcripts,
                   write_fails, sheet, schema, committed, dry_run, counts, examples,
                   moreVars>>

\* the row the block is attached to: by the concept first, then by the canonical guess;
\* NullId when neither cache has it
ScanEpisodeRow(mm, canon, by_model, by_title) ==
    IF mm # NoModel /\ CacheGet(by_model, mm.id) # NullId
    THEN CacheGet(by_model, mm.id)
    ELSE IF canon # <<>> THEN CacheGet(by_title, canon) ELSE NullId

\* one pass of "for idx, block in enumerate(blocks, start=1)", with the commit that
\* follows the last block of the file
ScanBlock ==
    /\ pc = "files"
    /\ ep <= Len(files)
    /\ row <= Len(files[ep].blocks)
    /\ \E block \in {files[ep].blocks[row]} :
       \E name \in {guess_model_name_from_text(block)} :
       \E canon \in {IF name # None /\ name # <<>> THEN canonicalize_name(name) ELSE <<>>} :
       \E mm \in {IF canon # <<>> THEN IndexGet(model_index, canon) ELSE NoModel} :
       \E episode_row \in {ScanEpisodeRow(mm, canon, existing_by_model, existing_by_title)} :
       \E written \in {[transcript |-> block, transcript_source |-> files[ep].name,
                        transcript_index |-> row]} :
         /\ guessed' = name
         /\ canon_guess' = canon
         /\ IF episode_row # NullId
            THEN /\ transcripts' = [transcripts EXCEPT ![episode_row] = written]
                 /\ counts' = [counts EXCEPT !.transcripts_found = @ + 1,
                                             !.episodes_updated = @ + 1]
                 /\ UNCHANGED <<mental_model_id, titles, existing_by_model,
                                existing_by_title>>
            ELSE \E new_title \in
                     {IF mm # NoModel THEN mm.name
                      ELSE IF name # None /\ name # <<>> THEN name
                      ELSE Chars("Episode from ") \o files[ep].name} :
                 /\ mental_model_id' = Append(mental_model_id, mm.id)
                 /\ titles' = Append(titles, new_title)
                 /\ transcripts' = Append(transcripts, written)
                 /\ existing_by_model' =
                        CacheByModel(existing_by_model, Len(titles) + 1, mm.id)
                 /\ existing_by_title' =
                        CacheByTitle(existing_by_title, Len(titles) + 1, new_title)
                 /\ counts' = [counts EXCEPT !.transcripts_found = @ + 1,
                                             !.episodes_inserted = @ + 1]
    /\ IF row = Len(files[ep].blocks)
       THEN /\ committed' = TRUE
            /\ ep' = ep + 1
            /\ row' = 1
       ELSE /\ row' = row + 1
            /\ UNCHANGED <<committed, ep>>
    /\ UNCHANGED <<pc, fn, text, once, twice, models, model_index, title, canon_title,
                   match, model_variants, episodes, write_fails, sheet, schema, dry_run,
                   examples, output, silent_segments, target_time, gap, raw_transcript,
                   cleaned_transcript, files, scans, feed, rss_guid>>

\* the connection is closed and the summary printed
ScanFinish ==
    /\ pc = "files"
    /\ ep > Len(files)
    /\ output' = Append(output, "scan summary")
    /\ pc' = "done"
    /\ UNCHANGED <<fn, canonVars, matchVars, model_variants, episodes, mental_model_id,
                   titles, transcripts, write_fails, sheet, schema, committed, dry_run, ep,
                   counts, examples, moreVars>>

NextScan == ScanStart \/ ScanEmptyFile \/ ScanBlock \/ ScanFinish

SpecScan == InitScan /\ [][NextScan]_vars

\* C28: a run of scan_transcripts that follows another over the same files inserts no
\* episode row: in the second run and after, no step changes the number of episodes.
C28_SecondScanInsertsNothing ==
    [][(pc = "files" /\ scans > 1) => Len(titles') = Len(titles)]_vars

(***************************************************************************)
(* SpecRss: mmtool/rss_import.py, import_rss, run over a feed again and    *)
(* again.  An entry is its title attribute and the guid line 28 computes   *)
(* from its id and guid attributes: None when the entry has neither, else  *)
(* a string, which is empty for an empty guid element.  The columns        *)
(* description, rss_link and rss_pubdate are written like rss_guid, by     *)
(* COALESCE, carry no constraint and are read by no lookup; they and the   *)
(* timestamps are left out.  The writes of a run reach the database file   *)
(* at its commit: a run that raises leaves the rows as they were.          *)
(***************************************************************************)
\* the titles of the feed entries: two concepts and a title that is no concept
FeedTitles == {Chars("Inversion"), Chars(" Zebra "), Chars("Hanlon's Razor")}

\* the guids of the feed entries
FeedGuids == {None, <<>>, Chars("g1"), Chars("g2")}

FeedEntries == [title : FeedTitles, guid : FeedGuids]

\* feed.entries
Feeds == {<<>>} \cup { <<e>> : e \in FeedEntries } \cup (FeedEntries \X FeedEntries)

\* the rows of episodes before the first import
RssEpisodeTables ==
    { <<>>,
      <<[mental_model_id |-> 1, title |-> Chars("Zebra"), rss_guid |-> Chars("g1")]>>,
      <<[mental_model_id |-> NullId, title |-> Chars("Inversion"), rss_guid |-> None],
        [mental_model_id |-> 2, title |-> Chars("Inversion"), rss_guid |-> Chars("g2")]>> }

\* the rows of episodes, from the three columns
EpisodeRows(mids, ts, guids) ==
    [k \in 1..Len(ts) |->
        [id |-> k, mental_model_id |-> mids[k], title |-> ts[k], rss_guid |-> guids[k]]]

InitRss ==
    /\ pc = "start"
    /\ fn = "names"
    /\ NoNames
    /\ \E t \in {<<>>, <<Inversion, HanlonsRazor>>} : models = RowsOf(t)
    /\ model_index = <<>>
    /\ model_variants = <<>>
    /\ episodes = <<>>
    /\ \E t \in RssEpisodeTables :
         /\ mental_model_id = [k \in 1..Len(t) |-> t[k].mental_model_id]
         /\ titles = [k \in 1..Len(t) |-> t[k].title]
         /\ rss_guid = [k \in 1..Len(t) |-> t[k].rss_guid]
    /\ transcripts = <<>>
    /\ write_fails = {}
    /\ sheet = <<>>
    /\ schema = <<>>
    /\ committed = FALSE
    /\ dry_run = FALSE
    /\ ep = 1
    /\ counts = NoImportCounts
    /\ examples = <<>>
    /\ output = <<>>
    /\ NoGap
    /\ NoCleaning
    /\ files = <<>>
    /\ existing_by_model = <<>>
    /\ existing_by_title = <<>>
    /\ scans = 0
    /\ feed \in Feeds

\* a run starts: the index of the concepts is built and the feed fetched; episodes
\* keeps the rows as the database file has them
RssStart ==
    /\ pc \in {"start", "done"}
    /\ scans < MaxScans
    /\ scans' = scans + 1
    /\ model_index' = build_mental_model_index("names", models)
    /\ episodes' = EpisodeRows(mental_model_id, titles, rss_guid)
    /\ counts' = NoImportCounts
    /\ output' = <<"fetching rss">>
    /\ committed' = FALSE
    /\ title' = None
    /\ canon_title' = None
    /\ ep' = 1
    /\ pc' = "entries"
    /\ UNCHANGED <<fn, canonVars, models, row, match, model_variants, mental_model_id,
                   titles, transcripts, write_fails, sheet, schema, dry_run, examples,
                   silent_segments, target_time, gap, raw_transcript, cleaned_transcript,
                   files, existing_by_model, existing_by_title, feed, rss_guid>>

\* the row the entry is written to: the one with its guid, else the first with its
\* title; NullId when there is none
RssExisting(guid, t, guids, ts) ==
    IF guid # None /\ guid # <<>> /\ \E k \in 1..Len(guids) : guids[k] = guid
    THEN CHOOSE k \in 1..Len(guids) : guids[k] = guid
    ELSE IF \E k \in 1..Len(ts) : ts[k] = t
    THEN Min({k \in 1..Len(ts) : ts[k] = t})
    ELSE NullId

\* rss_guid TEXT UNIQUE: the value is the rss_guid of a row other than this one
GuidTaken(guid, guids, id) ==
    guid # None /\ \E k \in 1..Len(guids) : k # id /\ guids[k] = guid

\* the UPDATE of an entry writes mental_model_id = COALESCE(?, mental_model_id)
RssLinkWritten(mm, old) == IF mm # NoModel THEN mm.id ELSE old

\* one pass of "for entry in feed.entries"
RssEntry ==
    /\ pc = "entries"
    /\ ep <= Len(feed)
    /\ \E t \in {Strip(feed[ep].title)}, guid \in {feed[ep].guid} :
       \E canon \in {canonicalize_name(t)} :
       \E mm \in {IndexGet(model_index, canon)} :
       \E existing \in {RssExisting(guid, t, rss_guid, titles)} :
       \E new_guid \in {IF existing = NullId \/ (guid # None /\ guid # <<>>) THEN guid
                        ELSE rss_guid[existing]} :
         /\ title' = t
         /\ canon_title' = canon
         /\ IF GuidTaken(new_guid, rss_guid, existing)
            THEN /\ mental_model_id' = [k \in 1..Len(episodes) |-> episodes[k].mental_model_id]
                 /\ titles' = [k \in 1..Len(episodes) |-> episodes[k].title]
                 /\ rss_guid' = [k \in 1..Len(episodes) |-> episodes[k].rss_guid]
                 /\ output' = Append(output, "IntegrityError")
                 /\ pc' = "done"
                 /\ UNCHANGED <<counts, ep>>
            ELSE /\ IF existing # NullId
                    THEN /\ titles' = [titles EXCEPT ![existing] =
                                          IF t # <<>> THEN t ELSE @]
                         /\ rss_guid' = [rss_guid EXCEPT ![existing] = new_guid]
                         /\ mental_model_id' =
                               [mental_model_id EXCEPT ![existing] = RssLinkWritten(mm, @)]
                         /\ counts' = [counts EXCEPT !.updated = @ + 1]
                    ELSE /\ titles' = Append(titles, t)
                         /\ rss_guid' = Append(rss_guid, guid)
                         /\ mental_model_id' = Append(mental_model_id, mm.id)
                         /\ counts' = [counts EXCEPT !.inserted = @ + 1]
                 /\ ep' = ep + 1
                 /\ UNCHANGED <<pc, output>>
    /\ UNCHANGED <<fn, canonVars, models, model_index, row, match, model_variants,
                   episodes, transcripts, write_fails, sheet, schema, committed, dry_run,
                   examples, silent_segments, target_time, gap, raw_transcript,
                   cleaned_transcript, files, existing_by_model, existing_by_title, scans,
                   feed>>

\* the commit and the summary
RssFinish ==
    /\ pc = "entries"
    /\ ep > Len(feed)
    /\ committed' = TRUE
    /\ output' = Append(output, "import rss")
    /\ pc' = "done"
    /\ UNCHANGED <<fn, canonVars, matchVars, model_variants, episodes, mental_model_id,
                   titles, transcripts, write_fails, sheet, schema, dry_run, ep, counts,
                   examples, moreVars>>

NextRss == RssStart \/ RssEntry \/ RssFinish

SpecRss == InitRss /\ [][NextRss]_vars

\* C29: an episode whose mental_model_id was not NULL before a run of import_rss has a
\* mental_model_id that is not NULL during and after the run, and the pass over a feed
\* entry makes exactly one insert or one update.
C29_LinkKeptOneWritePerEntry ==
    [][ /\ \A id \in 1..Len(episodes') :
             episodes'[id].mental_model_id # NullId => mental_model_id'[id] # NullId
        /\ (pc = "entries" /\ ep <= Len(feed)) =>
               \/ /\ counts' = [counts EXCEPT !.inserted = @ + 1]
                  /\ Len(titles') = Len(titles) + 1
               \/ /\ counts' = [counts EXCEPT !.updated = @ + 1]
                  /\ Len(titles') = Len(titles) ]_vars

====
